---- MODULE Spec2Model ----
(***************************************************************************)
(* A model of the ingress-nginx provider of ingress2gateway: the feature   *)
(* passes that fill the intermediate representation (IR) from Ingress      *)
(* annotations, the materializer that lowers the IR to Gateway API         *)
(* resources, and the gateway-mode (topology) transform.                   *)
(*                                                                         *)
(* Conventions.                                                            *)
(*  - A Go map is a TLA+ function; its key set is the DOMAIN.              *)
(*  - A Go pointer or optional value is a sequence of length 0 or 1        *)
(*    (<<>> is nil).                                                       *)
(*  - Names (namespaces, object names) are strings, built with \o as the   *)
(*    code builds them with + and Sprintf.                                 *)
(*  - Values the code parses character by character (numbers, hostnames,   *)
(*    zone descriptors) are sequences of one-character strings.            *)
(*  - Ranging over a Go map visits the keys in an unspecified order that   *)
(*    may differ from one loop to the next: wherever the result depends on *)
(*    the order, the operator returns the SET of possible results.         *)
(***************************************************************************)
EXTENDS Integers, Sequences, FiniteSets, Bags, TLC

VARIABLES
    ingresses,        \* the ordered list of source Ingress objects (read-only)
    gatewayConfig,    \* Provider.gatewayConfig: [Mode, Namespace, Name]
    ir,               \* intermediate.IR: [HTTPRoutes, Gateways, Services, BackendTLSPolicies]
    gatewayResources, \* i2gw.GatewayResources: [HTTPRoutes, Gateways, ReferenceGrants, GatewayExtensions]
    notifications,    \* bag of notify(...) calls: [Type, About, Object]
    errs,             \* the field.ErrorList returned so far
    pending,          \* the registered feature passes that have not run yet
    pc                \* the stage of the conversion run

vars == <<ingresses, gatewayConfig, ir, gatewayResources, notifications, errs, pending, pc>>

----------------------------------------------------------------------------
(* Generic helpers *)

Max(S) == CHOOSE x \in S : \A y \in S : y <= x
Min(S) == CHOOSE x \in S : \A y \in S : x <= y

Put(m, k, v) == [x \in (DOMAIN m) \cup {k} |-> IF x = k THEN v ELSE m[x]]

EmptyMap == [x \in {} |-> 0]

Range(s) == {s[i] : i \in DOMAIN s}

NamespacedName(ns, name) == [Namespace |-> ns, Name |-> name]

ZeroKey == NamespacedName("", "")

\* Go's integer division truncates toward zero.
GoDiv(a, b) == IF a >= 0 THEN a \div b ELSE -((-a) \div b)

Digits == {"0", "1", "2", "3", "4", "5", "6", "7", "8", "9"}

DigitVal(c) ==
    CASE c = "0" -> 0 [] c = "1" -> 1 [] c = "2" -> 2 [] c = "3" -> 3
      [] c = "4" -> 4 [] c = "5" -> 5 [] c = "6" -> 6 [] c = "7" -> 7
      [] c = "8" -> 8 [] c = "9" -> 9

IsDigits(s) == Len(s) > 0 /\ \A i \in 1..Len(s) : s[i] \in Digits

RECURSIVE DecVal(_)
DecVal(s) ==
    IF s = <<>> THEN 0
    ELSE DecVal(SubSeq(s, 1, Len(s) - 1)) * 10 + DigitVal(s[Len(s)])

\* strconv.Atoi on a character sequence: an optional sign, then one or more
\* decimal digits; anything else is an error.
Atoi(s) ==
    IF s # <<>> /\ s[1] \in {"+", "-"}
    THEN IF IsDigits(Tail(s))
         THEN [err |-> FALSE,
               val |-> IF s[1] = "-" THEN -DecVal(Tail(s)) ELSE DecVal(Tail(s))]
         ELSE [err |-> TRUE, val |-> 0]
    ELSE IF IsDigits(s)
         THEN [err |-> FALSE, val |-> DecVal(s)]
         ELSE [err |-> TRUE, val |-> 0]

\* The characters of a sequence joined into one string.
RECURSIVE Join(_)
Join(s) == IF s = <<>> THEN "" ELSE Head(s) \o Join(Tail(s))

\* Go's annotations[key]: the value, or the empty string when the key is absent.
\* AnnStr is used for annotations the code compares with literals, AnnChars for
\* those it parses.
AnnStr(ann, key) == IF key \in DOMAIN ann THEN ann[key] ELSE ""
AnnChars(ann, key) == IF key \in DOMAIN ann THEN ann[key] ELSE <<>>

----------------------------------------------------------------------------
(* Notifications *)

InfoNotification == "INFO"
WarningNotification == "WARNING"
ErrorNotification == "ERROR"

\* notify(type, message, object): the message is abstracted to what it is about.
Notification(type, about, object) == [Type |-> type, About |-> about, Object |-> object]

Notify(bag, type, about, object) == bag (+) SetToBag({Notification(type, about, object)})

IngressKey(ing) == NamespacedName(ing.Namespace, ing.Name)

----------------------------------------------------------------------------
(* Gateway configuration *)

DefaultGatewayNamespace == "istio-system"
DefaultGatewayName == "platform-gateway"

IsCentralized(c) == c.Mode = "centralized"

GetGatewayRef(c, serviceNamespace) ==
    IF IsCentralized(c)
    THEN NamespacedName(c.Namespace, c.Name)
    ELSE NamespacedName(serviceNamespace \o "-gateway", serviceNamespace \o "-gateway")

----------------------------------------------------------------------------
(* Source objects and the Route Resolver (the provider-agnostic converter) *)

\* The single ingress class the run selects.
IngressClass == "nginx"

\* An Ingress: [Namespace, Name, Annotations, Rules, DefaultBackend]. A rule is
\* one host with one path, [Host, Service, Port]; an Ingress with several paths
\* under a host has one rule per path. DefaultBackend is an optional
\* [Service, Port].
Ingress(ns, name, ann, rules, dflt) ==
    [Namespace |-> ns, Name |-> name, Annotations |-> ann, Rules |-> rules,
     DefaultBackend |-> dflt]

IngressRule(host, service, port) == [Host |-> host, Service |-> service, Port |-> port]

ServiceBackend(service, port) == [Service |-> service, Port |-> port]

\* The dots of a hostname replaced by dashes.
DotsToDashes(host) == [i \in 1..Len(host) |-> IF host[i] = "." THEN "-" ELSE host[i]]

\* common.RouteName: the route's synthesized name, from the name of the group's
\* first Ingress and the host.
RouteName(name, host) == name \o "-" \o Join(DotsToDashes(host))

\* The rules of the Ingresses of a namespace that carry a host, in list order.
RECURSIVE GroupRules(_, _, _)
GroupRules(ings, ns, host) ==
    IF ings = <<>> THEN <<>>
    ELSE (IF Head(ings).Namespace = ns
          THEN SelectSeq(Head(ings).Rules, LAMBDA r : r.Host = host)
          ELSE <<>>) \o GroupRules(Tail(ings), ns, host)

\* common.GetRuleGroups: the rules of all Ingresses grouped by namespace and
\* host; a group is named after the first Ingress of the list that has it.
GetRuleGroups(ings) ==
    LET pairs == UNION {{<<ings[i].Namespace, r.Host>> : r \in Range(ings[i].Rules)} :
                          i \in 1..Len(ings)}
        has(i, p) == ings[i].Namespace = p[1] /\ \E r \in Range(ings[i].Rules) : r.Host = p[2]
        first(p) == Min({i \in 1..Len(ings) : has(i, p)})
    IN  {[Namespace |-> p[1], Name |-> ings[first(p)].Name, Host |-> p[2],
          Rules |-> GroupRules(ings, p[1], p[2])] : p \in pairs}

ParentReference(ns, name, section) == [Namespace |-> ns, Name |-> name, SectionName |-> section]

\* An HTTPRouteRule: its filters and its optional timeouts (Duration strings).
HTTPRouteRule(filters) == [Filters |-> filters, Request |-> <<>>, BackendRequest |-> <<>>]

\* Source is the ingress2gateway.kubernetes.io/source annotation ("" when absent).
HTTPRoute(ns, name, source, parentRefs, hostnames, rules) ==
    [Namespace |-> ns, Name |-> name, Source |-> source, ParentRefs |-> parentRefs,
     Hostnames |-> hostnames, Rules |-> rules]

\* The route the converter generates for a rule group: it carries the group's
\* host, one rule per path of the group, and references the Gateway generated
\* for its namespace and class, leaving the parentRef's namespace nil.
GroupRoute(rg) ==
    HTTPRoute(rg.Namespace, RouteName(rg.Name, rg.Host), "",
              <<ParentReference(<<>>, IngressClass, <<>>)>>,
              <<rg.Host>>, [j \in 1..Len(rg.Rules) |-> HTTPRouteRule(<<>>)])

Listener(name, hostname, protocol) == [Name |-> name, Hostname |-> hostname, Protocol |-> protocol]

\* The hosts of the rules of the Ingresses of a namespace, in list order.
RECURSIVE FlatHosts(_, _)
FlatHosts(ings, ns) ==
    IF ings = <<>> THEN <<>>
    ELSE (IF Head(ings).Namespace = ns
          THEN [j \in 1..Len(Head(ings).Rules) |-> Head(ings).Rules[j].Host]
          ELSE <<>>) \o FlatHosts(Tail(ings), ns)

\* A sequence without its repeated elements (the first occurrence stays).
RECURSIVE Dedup(_)
Dedup(s) ==
    IF s = <<>> THEN <<>>
    ELSE LET init == Dedup(SubSeq(s, 1, Len(s) - 1))
         IN IF s[Len(s)] \in Range(init) THEN init ELSE Append(init, s[Len(s)])

\* The Gateway generated for a namespace: one HTTP listener per host, in the
\* order the hosts first occur in the Ingress list.
GroupGateway(ings, ns) ==
    LET hosts == Dedup(FlatHosts(ings, ns))
    IN  [Namespace |-> ns, Name |-> IngressClass, GatewayClassName |-> IngressClass,
         Listeners |-> [n \in 1..Len(hosts) |->
                          Listener(Join(DotsToDashes(hosts[n])) \o "-http", hosts[n], "HTTP")]]

\* IR.HTTPRoutes entry: the route and the lazily allocated provider-specific
\* sub-record (nil until a pass writes to it).
RouteContext(route) == [HTTPRoute |-> route, IngressNginx |-> <<>>]

\* The IR the converter hands to the feature passes.
CommonToIR(ings) ==
    LET groups == GetRuleGroups(ings)
        keyOf(rg) == NamespacedName(rg.Namespace, RouteName(rg.Name, rg.Host))
        nss == {rg.Namespace : rg \in groups}
    IN  [HTTPRoutes |-> [k \in {keyOf(rg) : rg \in groups} |->
                            RouteContext(GroupRoute(CHOOSE rg \in groups : keyOf(rg) = k))],
         Gateways |-> [k \in {NamespacedName(ns, IngressClass) : ns \in nss} |->
                            GroupGateway(ings, k.Namespace)],
         Services |-> [k \in UNION {{NamespacedName(ings[i].Namespace, b.Service) :
                                        b \in Range(ings[i].Rules) \cup Range(ings[i].DefaultBackend)} :
                                    i \in 1..Len(ings)} |-> [IngressNginx |-> <<>>]],
         BackendTLSPolicies |-> EmptyMap]

\* intermediate.IngressNginxHTTPRouteIR with every field at its zero value.
IngressNginxHTTPRouteIR ==
    [SSLRedirect |-> FALSE, ProxyBuffering |-> <<>>, ProxyRequestBuffering |-> <<>>,
     ProxyBodySize |-> <<>>, RateLimitRPS |-> 0, RateLimitBurst |-> 0,
     ClientCertAuth |-> <<>>, ExternalAuth |-> <<>>]

\* The provider-specific sub-record of a route context, allocated if nil.
NginxOf(routeCtx) ==
    IF routeCtx.IngressNginx = <<>> THEN IngressNginxHTTPRouteIR ELSE routeCtx.IngressNginx[1]

\* findHTTPRouteKey: "the first route in the same namespace" of a range over
\* the IR's route map, so any route of that namespace; the zero key if none.
findHTTPRouteKey(routes, ingressKey) ==
    LET same == {k \in DOMAIN routes : k.Namespace = ingressKey.Namespace}
    IN  IF same = {} THEN {ZeroKey} ELSE same

----------------------------------------------------------------------------
(* Rate-limit pass *)

limitRPSAnnotation == "nginx.ingress.kubernetes.io/limit-rps"
limitRPMAnnotation == "nginx.ingress.kubernetes.io/limit-rpm"
limitConnectionsAnnotation == "nginx.ingress.kubernetes.io/limit-connections"
limitBurstAnnotation == "nginx.ingress.kubernetes.io/limit-burst-multiplier"
limitReqZoneAnnotation == "nginx.ingress.kubernetes.io/limit-req-zone"

\* field.Invalid(path, value, message)
FieldError(annotation, value) == [Field |-> annotation, BadValue |-> value]

MatchAt(s, i, lit) == i + Len(lit) - 1 <= Len(s) /\ SubSeq(s, i, i + Len(lit) - 1) = lit

\* The last index of the run of digits that starts at i (i - 1 if there is none).
DigitRunEnd(s, i) ==
    LET js == {j \in i..Len(s) : \A k \in i..j : s[k] \in Digits}
    IN  IF js = {} THEN i - 1 ELSE Max(js)

\* The regular expression rate=(\d+)r/<unit> matches at position i.
RateMatchAt(s, i, unit) ==
    /\ MatchAt(s, i, <<"r", "a", "t", "e", "=">>)
    /\ LET e == DigitRunEnd(s, i + 5)
       IN  e >= i + 5 /\ MatchAt(s, e + 1, <<"r", "/", unit>>)

\* regexp.FindStringSubmatch for rate=(\d+)r/<unit>: the digits of the leftmost
\* match, as an optional value.
FindRateSubmatch(s, unit) ==
    LET is == {i \in 1..Len(s) : RateMatchAt(s, i, unit)}
    IN  IF is = {} THEN <<>>
        ELSE <<SubSeq(s, Min(is) + 5, DigitRunEnd(s, Min(is) + 5))>>

\* A conversion that forgets the minimum of 1.
RPMToRPS_NoMinimum(val) == GoDiv(val, 60)

\* The requests-per-minute to requests-per-second rule: divide by 60, and at
\* least 1 when the source value is positive.
RPMToRPS(val) == IF GoDiv(val, 60) = 0 /\ val > 0 THEN 1 ELSE GoDiv(val, 60)

\* parseZoneRate: the per-second rate first, then the per-minute rate, which
\* overwrites it when both patterns match. It never sets a burst.
parseZoneRate(zone) ==
    LET perSec == FindRateSubmatch(zone, "s")
        perMin == FindRateSubmatch(zone, "m")
        rps1 == IF perSec # <<>> /\ ~Atoi(perSec[1]).err THEN Atoi(perSec[1]).val ELSE 0
        rps2 == IF perMin # <<>> /\ ~Atoi(perMin[1]).err
                THEN RPMToRPS(Atoi(perMin[1]).val) ELSE rps1
    IN  [RPS |-> rps2, Burst |-> 0]

\* parseRateLimitConfig, annotation by annotation in the order of the code.
\* The result is [nil, config, errs]; config is [RPS, RPM, Connections, Burst, Zone].
parseRateLimitConfig(ann) ==
    LET rps == AnnChars(ann, limitRPSAnnotation)
        rpm == AnnChars(ann, limitRPMAnnotation)
        conn == AnnChars(ann, limitConnectionsAnnotation)
        burst == AnnChars(ann, limitBurstAnnotation)
        zone == AnnChars(ann, limitReqZoneAnnotation)
        c0 == [RPS |-> 0, RPM |-> 0, Connections |-> 0, Burst |-> 0, Zone |-> <<>>]
        \* limit-rps
        c1 == IF rps # <<>> /\ ~Atoi(rps).err THEN [c0 EXCEPT !.RPS = Atoi(rps).val] ELSE c0
        e1 == IF rps # <<>> /\ Atoi(rps).err THEN <<FieldError(limitRPSAnnotation, rps)>> ELSE <<>>
        \* limit-rpm, converted unless an RPS is already set
        c2 == IF rpm # <<>> /\ ~Atoi(rpm).err
              THEN [c1 EXCEPT !.RPM = Atoi(rpm).val,
                              !.RPS = IF c1.RPS = 0 THEN RPMToRPS(Atoi(rpm).val) ELSE c1.RPS]
              ELSE c1
        e2 == IF rpm # <<>> /\ Atoi(rpm).err THEN <<FieldError(limitRPMAnnotation, rpm)>> ELSE <<>>
        \* limit-connections
        c3 == IF conn # <<>> /\ ~Atoi(conn).err
              THEN [c2 EXCEPT !.Connections = Atoi(conn).val] ELSE c2
        e3 == IF conn # <<>> /\ Atoi(conn).err
              THEN <<FieldError(limitConnectionsAnnotation, conn)>> ELSE <<>>
        \* limit-burst-multiplier, times the RPS resolved so far
        c4 == IF burst # <<>> /\ ~Atoi(burst).err
              THEN [c3 EXCEPT !.Burst = c3.RPS * Atoi(burst).val] ELSE c3
        e4 == IF burst # <<>> /\ Atoi(burst).err
              THEN <<FieldError(limitBurstAnnotation, burst)>> ELSE <<>>
        \* limit-req-zone
        z == parseZoneRate(zone)
        c5 == IF zone # <<>>
              THEN LET cz == [c4 EXCEPT !.Zone = zone]
                   IN IF z.RPS > 0
                      THEN [cz EXCEPT !.RPS = IF cz.RPS = 0 THEN z.RPS ELSE cz.RPS,
                                      !.Burst = IF cz.Burst = 0 /\ z.Burst > 0
                                                THEN z.Burst ELSE cz.Burst]
                      ELSE cz
              ELSE c4
        hasConfig == \/ (rps # <<>> /\ ~Atoi(rps).err)
                     \/ (rpm # <<>> /\ ~Atoi(rpm).err)
                     \/ (conn # <<>> /\ ~Atoi(conn).err)
                     \/ (burst # <<>> /\ ~Atoi(burst).err)
                     \/ zone # <<>>
    IN  IF ~hasConfig
        THEN [nil |-> TRUE, config |-> c0, errs |-> <<>>]
        ELSE [nil |-> FALSE, config |-> c5, errs |-> e1 \o e2 \o e3 \o e4]

\* A store that allocates a fresh sub-record for the route every time.
RateLimitStore_Reallocate(routeCtx, config) ==
    LET n0 == IngressNginxHTTPRouteIR
        n1 == IF config.RPS > 0 THEN [n0 EXCEPT !.RateLimitRPS = config.RPS] ELSE n0
        n2 == IF config.Burst > 0 THEN [n1 EXCEPT !.RateLimitBurst = config.Burst] ELSE n1
    IN  [routeCtx EXCEPT !.IngressNginx = <<n2>>]

\* What rateLimitFeature writes for one parsed config into a route context.
RateLimitStore(routeCtx, config) ==
    LET n0 == NginxOf(routeCtx)
        n1 == IF config.RPS > 0 THEN [n0 EXCEPT !.RateLimitRPS = config.RPS] ELSE n0
        n2 == IF config.Burst > 0 THEN [n1 EXCEPT !.RateLimitBurst = config.Burst] ELSE n1
    IN  [routeCtx EXCEPT !.IngressNginx = <<n2>>]

\* One iteration of rateLimitFeature's loop: the possible states [routes, errs,
\* notes] after the Ingress is processed.
RateLimitStep(ing, st) ==
    LET parsed == parseRateLimitConfig(ing.Annotations)
    IN  IF Len(parsed.errs) > 0 THEN {[st EXCEPT !.errs = st.errs \o parsed.errs]}
        ELSE IF parsed.nil THEN {st}
        ELSE {IF routeKey = ZeroKey THEN st
              ELSE [st EXCEPT !.routes = Put(st.routes, routeKey,
                                             RateLimitStore(st.routes[routeKey], parsed.config)),
                              !.notes = Notify(st.notes, InfoNotification, "rate-limit",
                                               IngressKey(ing))] :
                routeKey \in findHTTPRouteKey(st.routes, IngressKey(ing))}

\* rateLimitFeature over the Ingress list: the set of possible final states.
RECURSIVE rateLimitFeature(_, _)
rateLimitFeature(ings, st) ==
    IF ings = <<>> THEN {st}
    ELSE UNION {rateLimitFeature(Tail(ings), s1) : s1 \in RateLimitStep(Head(ings), st)}

----------------------------------------------------------------------------
(* SSL-redirect pass *)

sslRedirectAnnotation == "nginx.ingress.kubernetes.io/ssl-redirect"
forceSSLRedirectAnnotation == "nginx.ingress.kubernetes.io/force-ssl-redirect"

\* A trigger that looks at ssl-redirect alone.
SSLRedirectEnabled_OnlySSLRedirect(ann) == AnnStr(ann, sslRedirectAnnotation) = "true"

\* The pass's trigger: either annotation is "true".
SSLRedirectEnabled(ann) ==
    \/ AnnStr(ann, sslRedirectAnnotation) = "true"
    \/ AnnStr(ann, forceSSLRedirectAnnotation) = "true"

\* matchesRoute: the Ingress has a rule for the host, or the host is empty and
\* the Ingress has a default backend. The namespace is not compared.
matchesRoute(ing, host) ==
    \/ \E r \in Range(ing.Rules) : r.Host = host
    \/ host = <<>> /\ ing.DefaultBackend # <<>>

\* sslRedirectFeature: the resulting [routes, errs, notes].
sslRedirectFeature(ings, st) ==
    LET ingressRedirects == {IngressKey(ings[i]) : i \in {j \in 1..Len(ings) :
                                SSLRedirectEnabled(ings[j].Annotations)}}
        keyOf(rg) == NamespacedName(rg.Namespace, RouteName(rg.Name, rg.Host))
        flagged == {keyOf(rg) : rg \in {g \in GetRuleGroups(ings) :
                        /\ keyOf(g) \in DOMAIN st.routes
                        /\ \E i \in 1..Len(ings) :
                              /\ IngressKey(ings[i]) \in ingressRedirects
                              /\ matchesRoute(ings[i], g.Host)}}
    IN  IF ingressRedirects = {} THEN st
        ELSE [st EXCEPT
                !.routes = [k \in DOMAIN st.routes |->
                              IF k \in flagged
                              THEN [st.routes[k] EXCEPT
                                      !.IngressNginx = <<[NginxOf(st.routes[k]) EXCEPT
                                                            !.SSLRedirect = TRUE]>>]
                              ELSE st.routes[k]],
                !.notes = st.notes (+) SetToBag({Notification(InfoNotification,
                                                              "ssl-redirect", k) : k \in flagged})]

----------------------------------------------------------------------------
(* Materializer: redirect routes *)

buildSSLRedirectFilter ==
    [Type |-> "RequestRedirect", Scheme |-> "https", StatusCode |-> 301]

\* A listener name that keeps the dots of the hostname.
buildHTTPListenerName_KeepDots(hostname) == Join(hostname) \o "-http"

\* buildHTTPListenerName: every "." of the hostname becomes "-", then "-http".
RECURSIVE ReplaceDotsFrom(_, _)
ReplaceDotsFrom(name, i) ==
    IF i > Len(name) THEN name
    ELSE ReplaceDotsFrom(IF name[i] = "."
                         THEN SubSeq(name, 1, i - 1) \o <<"-">> \o SubSeq(name, i + 1, Len(name))
                         ELSE name, i + 1)

buildHTTPListenerName(hostname) == Join(ReplaceDotsFrom(hostname, 1)) \o "-http"

RedirectSource == "nginx.ingress.kubernetes.io/ssl-redirect"

\* The redirect route built for one hostname of a flagged route.
RedirectRoute(redirectRouteKey, gw, hostname) ==
    HTTPRoute(redirectRouteKey.Namespace, redirectRouteKey.Name, RedirectSource,
              <<ParentReference(<<gw.Namespace>>, gw.Name, <<buildHTTPListenerName(hostname)>>)>>,
              <<hostname>>,
              <<HTTPRouteRule(<<buildSSLRedirectFilter>>)>>)

\* The inner loop without the existence check: every hostname writes the
\* redirect key.
RECURSIVE RedirectsForHostnames_Overwrite(_, _, _, _)
RedirectsForHostnames_Overwrite(routes, routeKey, gw, hostnames) ==
    IF hostnames = <<>> THEN routes
    ELSE LET redirectRouteKey == NamespacedName(routeKey.Namespace, routeKey.Name \o "-redirect")
         IN  RedirectsForHostnames_Overwrite(
                 Put(routes, redirectRouteKey,
                     RedirectRoute(redirectRouteKey, gw, Head(hostnames))),
                 routeKey, gw, Tail(hostnames))

\* The inner loop of buildSSLRedirectRoutes over the hostnames of one route:
\* a hostname is skipped when a route already exists under the redirect key.
RECURSIVE RedirectsForHostnames(_, _, _, _)
RedirectsForHostnames(routes, routeKey, gw, hostnames) ==
    IF hostnames = <<>> THEN routes
    ELSE LET redirectRouteKey == NamespacedName(routeKey.Namespace, routeKey.Name \o "-redirect")
             next == IF redirectRouteKey \in DOMAIN routes THEN routes
                     ELSE Put(routes, redirectRouteKey,
                              RedirectRoute(redirectRouteKey, gw, Head(hostnames)))
         IN  RedirectsForHostnames(next, routeKey, gw, Tail(hostnames))

NeedsRedirect(routeCtx) ==
    routeCtx.IngressNginx # <<>> /\ routeCtx.IngressNginx[1].SSLRedirect

\* buildSSLRedirectRoutes with the IR's routes visited in the order of todo's
\* choices: the set of possible HTTPRoutes maps.
RECURSIVE RedirectsInAnyOrder(_, _, _, _)
RedirectsInAnyOrder(irRoutes, routes, cfg, todo) ==
    IF todo = {} THEN {routes}
    ELSE UNION {RedirectsInAnyOrder(irRoutes,
                    IF NeedsRedirect(irRoutes[k])
                    THEN RedirectsForHostnames(routes, k, GetGatewayRef(cfg, k.Namespace),
                                               irRoutes[k].HTTPRoute.Hostnames)
                    ELSE routes,
                    cfg, todo \ {k}) : k \in todo}

buildSSLRedirectRoutes(irRoutes, routes, cfg) ==
    RedirectsInAnyOrder(irRoutes, routes, cfg, DOMAIN irRoutes)

----------------------------------------------------------------------------
(* Materializer: cross-namespace ReferenceGrants *)

ReferenceGrant(grantKey, serviceNS, gatewayName) ==
    [Namespace |-> grantKey.Namespace, Name |-> grantKey.Name,
     SourceNamespace |-> serviceNS,
     From |-> {[Kind |-> "HTTPRoute", Namespace |-> serviceNS],
               [Kind |-> "GRPCRoute", Namespace |-> serviceNS]},
     To |-> {[Kind |-> "Gateway", Name |-> gatewayName]}]

GrantKey(cfg, serviceNS) ==
    NamespacedName(GetGatewayRef(cfg, serviceNS).Namespace, "allow-routes-from-" \o serviceNS)

\* A grant pass that does not skip a service namespace that is the gateway's own.
GrantNamespaces_NoSkip(irRoutes, cfg) == {k.Namespace : k \in DOMAIN irRoutes}

\* The service namespaces buildCrossNamespaceReferenceGrants makes a grant for:
\* those that hold a route and differ from their gateway's namespace.
GrantNamespaces(irRoutes, cfg) ==
    {ns \in {k.Namespace : k \in DOMAIN irRoutes} : ns # GetGatewayRef(cfg, ns).Namespace}

\* buildCrossNamespaceReferenceGrants: [grants, notes] after the pass. The keys
\* of distinct service namespaces differ, so the order of the range is immaterial.
buildCrossNamespaceReferenceGrants(irRoutes, grants, cfg, notes) ==
    LET nss == GrantNamespaces(irRoutes, cfg)
        newKeys == {GrantKey(cfg, ns) : ns \in nss}
        nsOf(k) == CHOOSE ns \in nss : GrantKey(cfg, ns) = k
    IN  [grants |-> [k \in (DOMAIN grants) \cup newKeys |->
                        IF k \in newKeys
                        THEN ReferenceGrant(k, nsOf(k), GetGatewayRef(cfg, nsOf(k)).Name)
                        ELSE grants[k]],
         notes |-> notes (+) SetToBag({Notification(InfoNotification, "reference-grant",
                                                    GrantKey(cfg, ns)) : ns \in nss})]

----------------------------------------------------------------------------
(* Topology transform *)

\* A rewrite that stops at the first matching parentRef of a route.
updateHTTPRouteParentRefs_FirstMatchOnly(routes, oldGw, newGw) ==
    [k \in DOMAIN routes |->
        LET matches(i) ==
                LET ref == routes[k].ParentRefs[i]
                    parentNs == IF ref.Namespace # <<>> THEN ref.Namespace[1]
                                ELSE routes[k].Namespace
                IN  parentNs = oldGw.Namespace /\ ref.Name = oldGw.Name
        IN  [routes[k] EXCEPT !.ParentRefs =
                [i \in 1..Len(routes[k].ParentRefs) |->
                    IF matches(i) /\ \A j \in 1..(i - 1) : ~matches(j)
                    THEN [routes[k].ParentRefs[i] EXCEPT !.Namespace = <<newGw.Namespace>>,
                                                         !.Name = newGw.Name]
                    ELSE routes[k].ParentRefs[i]]]]

\* A rewrite that resolves no nil namespace: it compares only explicit ones.
updateHTTPRouteParentRefs_ExplicitOnly(routes, oldGw, newGw) ==
    [k \in DOMAIN routes |->
        [routes[k] EXCEPT !.ParentRefs =
            [i \in 1..Len(routes[k].ParentRefs) |->
                LET ref == routes[k].ParentRefs[i]
                IN  IF ref.Namespace = <<oldGw.Namespace>> /\ ref.Name = oldGw.Name
                    THEN [ref EXCEPT !.Namespace = <<newGw.Namespace>>, !.Name = newGw.Name]
                    ELSE ref]]]

\* updateHTTPRouteParentRefs: in every route, every parentRef that resolves to
\* the old gateway (a nil namespace being the route's own) is pointed at the new.
updateHTTPRouteParentRefs(routes, oldGw, newGw) ==
    [k \in DOMAIN routes |->
        [routes[k] EXCEPT !.ParentRefs =
            [i \in 1..Len(routes[k].ParentRefs) |->
                LET ref == routes[k].ParentRefs[i]
                    parentNs == IF ref.Namespace # <<>> THEN ref.Namespace[1]
                                ELSE routes[k].Namespace
                IN  IF parentNs = oldGw.Namespace /\ ref.Name = oldGw.Name
                    THEN [ref EXCEPT !.Namespace = <<newGw.Namespace>>, !.Name = newGw.Name]
                    ELSE ref]]]

\* All the orders in which a range can visit the elements of a set.
RECURSIVE Perms(_)
Perms(S) ==
    IF S = {} THEN {<<>>}
    ELSE UNION {{<<x>> \o p : p \in Perms(S \ {x})} : x \in S}

\* updateHTTPRouteParentRefs applied for the old keys in the given order.
RECURSIVE UpdateInOrder(_, _, _)
UpdateInOrder(routes, order, oldToNew) ==
    IF order = <<>> THEN routes
    ELSE UpdateInOrder(updateHTTPRouteParentRefs(routes, Head(order), oldToNew[Head(order)]),
                       Tail(order), oldToNew)

\* Centralized mode: every route is pointed from each generated Gateway to the
\* configured one, and the Gateways map is emptied.
TransformCentralized(gr, cfg) ==
    LET central == NamespacedName(cfg.Namespace, cfg.Name)
        oldToNew == [k \in DOMAIN gr.Gateways |-> central]
    IN  {[gr EXCEPT !.HTTPRoutes = UpdateInOrder(gr.HTTPRoutes, order, oldToNew),
                    !.Gateways = EmptyMap] : order \in Perms(DOMAIN gr.Gateways)}

\* The Gateway built for one namespace: a copy of the Gateway visited first,
\* with the listeners of the others appended, renamed to the new key.
RECURSIVE ListenersInOrder(_, _)
ListenersInOrder(gateways, order) ==
    IF order = <<>> THEN <<>>
    ELSE gateways[Head(order)].Listeners \o ListenersInOrder(gateways, Tail(order))

\* A template that keeps the listeners of the first Gateway visited only.
TemplateGateway_NoMerge(gateways, order, newKey) ==
    [gateways[Head(order)] EXCEPT !.Namespace = newKey.Namespace,
                                  !.Name = newKey.Name,
                                  !.GatewayClassName = "istio"]

TemplateGateway(gateways, order, newKey) ==
    [gateways[Head(order)] EXCEPT !.Listeners = ListenersInOrder(gateways, order),
                                  !.Namespace = newKey.Namespace,
                                  !.Name = newKey.Name,
                                  !.GatewayClassName = "istio"]

\* The loop over the namespaces that hold routes, visited in nsOrder: every
\* iteration maps EVERY generated Gateway to the namespace's new key, so the
\* entries written for an earlier namespace are overwritten by the later ones.
\* gwOrders[ns] is the order in which the iteration of ns visits the Gateways.
\* The result is [newGateways, oldToNewGateway].
RECURSIVE PerNamespaceLoop(_, _, _, _, _)
PerNamespaceLoop(gateways, cfg, nsOrder, gwOrders, acc) ==
    IF nsOrder = <<>> THEN acc
    ELSE LET namespace == Head(nsOrder)
             newKey == GetGatewayRef(cfg, namespace)
             olds == DOMAIN gateways
             acc1 == [newGateways |->
                         IF olds = {} THEN acc.newGateways
                         ELSE Put(acc.newGateways, newKey,
                                  TemplateGateway(gateways, gwOrders[namespace], newKey)),
                      oldToNewGateway |->
                         [k \in (DOMAIN acc.oldToNewGateway) \cup olds |->
                             IF k \in olds THEN newKey ELSE acc.oldToNewGateway[k]]]
         IN  PerNamespaceLoop(gateways, cfg, Tail(nsOrder), gwOrders, acc1)

TransformPerNamespace(gr, cfg) ==
    LET nss == {k.Namespace : k \in DOMAIN gr.HTTPRoutes}
    IN  UNION {
          LET res == PerNamespaceLoop(gr.Gateways, cfg, nsOrder, gwOrders,
                                      [newGateways |-> EmptyMap, oldToNewGateway |-> EmptyMap])
          IN  {[gr EXCEPT !.HTTPRoutes = UpdateInOrder(gr.HTTPRoutes, order, res.oldToNewGateway),
                          !.Gateways = res.newGateways] :
                 order \in Perms(DOMAIN res.oldToNewGateway)} :
          nsOrder \in Perms(nss), gwOrders \in [nss -> Perms(DOMAIN gr.Gateways)]}

\* transformGatewaysForMode: the possible resource sets after the transform.
transformGatewaysForMode(gr, cfg) ==
    IF cfg.Mode = "centralized" THEN TransformCentralized(gr, cfg)
    ELSE TransformPerNamespace(gr, cfg)

\* Warnings that are emitted whatever the gateway mode.
emitCentralizedModeWarnings_AnyMode(irRoutes, cfg, notes) ==
    notes
    (+) SetToBag({Notification(WarningNotification, "centralized-auth-url", k) :
           k \in {x \in DOMAIN irRoutes :
                   /\ irRoutes[x].IngressNginx # <<>>
                   /\ irRoutes[x].IngressNginx[1].ExternalAuth # <<>>
                   /\ irRoutes[x].IngressNginx[1].ExternalAuth[1].URL # ""}})
    (+) SetToBag({Notification(WarningNotification, "centralized-auth-tls-secret", k) :
           k \in {x \in DOMAIN irRoutes :
                   /\ irRoutes[x].IngressNginx # <<>>
                   /\ irRoutes[x].IngressNginx[1].ClientCertAuth # <<>>
                   /\ irRoutes[x].IngressNginx[1].ClientCertAuth[1].Secret # ""}})

\* emitCentralizedModeWarnings: one WARNING per route with an external-auth URL
\* and one per route with a client-cert secret, in centralized mode only.
emitCentralizedModeWarnings(irRoutes, cfg, notes) ==
    IF ~IsCentralized(cfg) THEN notes
    ELSE notes
         (+) SetToBag({Notification(WarningNotification, "centralized-auth-url", k) :
                k \in {x \in DOMAIN irRoutes :
                        /\ irRoutes[x].IngressNginx # <<>>
                        /\ irRoutes[x].IngressNginx[1].ExternalAuth # <<>>
                        /\ irRoutes[x].IngressNginx[1].ExternalAuth[1].URL # ""}})
         (+) SetToBag({Notification(WarningNotification, "centralized-auth-tls-secret", k) :
                k \in {x \in DOMAIN irRoutes :
                        /\ irRoutes[x].IngressNginx # <<>>
                        /\ irRoutes[x].IngressNginx[1].ClientCertAuth # <<>>
                        /\ irRoutes[x].IngressNginx[1].ClientCertAuth[1].Secret # ""}})

\* common.ToGatewayResources: the IR's routes and Gateways as resources.
CommonToGatewayResources(i) ==
    [HTTPRoutes |-> [k \in DOMAIN i.HTTPRoutes |-> i.HTTPRoutes[k].HTTPRoute],
     Gateways |-> i.Gateways,
     ReferenceGrants |-> EmptyMap,
     GatewayExtensions |-> {}]

----------------------------------------------------------------------------
(* Materializer: Istio EnvoyFilters *)

\* A rate-limit filter whose burst defaults to the RPS itself.
buildRateLimitEnvoyFilter_NoBurstDefault(key, gatewayNamespace, gatewayName, rps, burst) ==
    [Kind |-> "EnvoyFilter", Namespace |-> key.Namespace, Name |-> key.Name,
     Source |-> limitRPSAnnotation,
     TargetRef |-> NamespacedName(gatewayNamespace, gatewayName),
     Filter |-> "envoy.filters.http.local_ratelimit",
     token_bucket |-> [max_tokens |-> IF burst = 0 THEN rps ELSE burst,
                       tokens_per_fill |-> rps,
                       fill_interval |-> "1s"]]

\* buildRateLimitEnvoyFilter: the local_ratelimit filter, its burst defaulted
\* to five times the RPS when none is given.
buildRateLimitEnvoyFilter(key, gatewayNamespace, gatewayName, rps, burst) ==
    [Kind |-> "EnvoyFilter", Namespace |-> key.Namespace, Name |-> key.Name,
     Source |-> limitRPSAnnotation,
     TargetRef |-> NamespacedName(gatewayNamespace, gatewayName),
     Filter |-> "envoy.filters.http.local_ratelimit",
     token_bucket |-> [max_tokens |-> IF burst = 0 THEN rps * 5 ELSE burst,
                       tokens_per_fill |-> rps,
                       fill_interval |-> "1s"]]

buildBodySizeEnvoyFilter(key, gatewayNamespace, gatewayName, bodySize) ==
    [Kind |-> "EnvoyFilter", Namespace |-> key.Namespace, Name |-> key.Name,
     Source |-> "nginx.ingress.kubernetes.io/proxy-body-size",
     TargetRef |-> NamespacedName(gatewayNamespace, gatewayName),
     Filter |-> "envoy.filters.http.buffer",
     BodySize |-> bodySize]

buildNoBufferingEnvoyFilter(key, gatewayNamespace, gatewayName) ==
    [Kind |-> "EnvoyFilter", Namespace |-> key.Namespace, Name |-> key.Name,
     Source |-> "nginx.ingress.kubernetes.io/proxy-buffering",
     TargetRef |-> NamespacedName(gatewayNamespace, gatewayName),
     Filter |-> "circuit_breakers"]

buildExtAuthzEnvoyFilter(key, gatewayNamespace, gatewayName, authConfig) ==
    [Kind |-> "EnvoyFilter", Namespace |-> key.Namespace, Name |-> key.Name,
     Source |-> "nginx.ingress.kubernetes.io/auth-url",
     TargetRef |-> NamespacedName(gatewayNamespace, gatewayName),
     Filter |-> "envoy.filters.http.ext_authz",
     Auth |-> authConfig]

\* The filters GenerateEnvoyFilters builds for one route, as <<key, filter>> pairs.
RouteEnvoyFilters(cfg, routeKey, routeCtx) ==
    IF routeCtx.IngressNginx = <<>> THEN {}
    ELSE
    LET nginxIR == routeCtx.IngressNginx[1]
        gw == GetGatewayRef(cfg, routeKey.Namespace)
        filterNamespace == IF IsCentralized(cfg) THEN gw.Namespace ELSE routeKey.Namespace
        keyFor(concern) ==
            NamespacedName(filterNamespace,
                           routeKey.Namespace \o "-" \o routeKey.Name \o "-" \o concern)
    IN  (IF nginxIR.RateLimitRPS > 0
         THEN {<<keyFor("ratelimit"),
                 buildRateLimitEnvoyFilter(keyFor("ratelimit"), gw.Namespace, gw.Name,
                                           nginxIR.RateLimitRPS, nginxIR.RateLimitBurst)>>}
         ELSE {})
        \cup
        (IF nginxIR.ProxyBodySize # <<>>
         THEN {<<keyFor("bodysize"),
                 buildBodySizeEnvoyFilter(keyFor("bodysize"), gw.Namespace, gw.Name,
                                          nginxIR.ProxyBodySize)>>}
         ELSE {})
        \cup
        (IF nginxIR.ProxyBuffering # <<>> /\ ~nginxIR.ProxyBuffering[1]
         THEN {<<keyFor("nobuffer"),
                 buildNoBufferingEnvoyFilter(keyFor("nobuffer"), gw.Namespace, gw.Name)>>}
         ELSE {})
        \cup
        (IF nginxIR.ExternalAuth # <<>> /\ nginxIR.ExternalAuth[1].URL # ""
         THEN {<<keyFor("extauthz"),
                 buildExtAuthzEnvoyFilter(keyFor("extauthz"), gw.Namespace, gw.Name,
                                          nginxIR.ExternalAuth[1])>>}
         ELSE {})

\* All the maps that hold, under each key, one of the values of cf[key].
RECURSIVE Choices(_)
Choices(cf) ==
    IF DOMAIN cf = {} THEN {EmptyMap}
    ELSE LET k == CHOOSE x \in DOMAIN cf : TRUE
             rest == [x \in (DOMAIN cf) \ {k} |-> cf[x]]
         IN  {Put(m, k, v) : m \in Choices(rest), v \in cf[k]}

\* GenerateEnvoyFilters: the possible filter maps. Two routes that compute the
\* same filter key overwrite one another, the route visited last staying.
GenerateEnvoyFilters(cfg, routes) ==
    LET pairs == UNION {RouteEnvoyFilters(cfg, k, routes[k]) : k \in DOMAIN routes}
        keys == {p[1] : p \in pairs}
    IN  Choices([k \in keys |-> {p[2] : p \in {q \in pairs : q[1] = k}}])

\* buildIstioEnvoyFilters appends every generated filter to GatewayExtensions,
\* in the order of a range over the filter map: the extensions are kept as a set.
buildIstioEnvoyFilters(cfg, routes, extensions) ==
    {extensions \cup Range(filters) : filters \in GenerateEnvoyFilters(cfg, routes)}

----------------------------------------------------------------------------
(* App-level warnings pass *)

serverSnippetAnnotation == "nginx.ingress.kubernetes.io/server-snippet"
configurationSnippetAnnotation == "nginx.ingress.kubernetes.io/configuration-snippet"
useRegexAnnotation == "nginx.ingress.kubernetes.io/use-regex"
rewriteTargetAnnotation == "nginx.ingress.kubernetes.io/rewrite-target"
authURLAnnotation == "nginx.ingress.kubernetes.io/auth-url"
authTLSSecretAnnotation == "nginx.ingress.kubernetes.io/auth-tls-secret"

\* The keys of the appLevelAnnotations map.
appLevelAnnotations ==
    {serverSnippetAnnotation, configurationSnippetAnnotation, useRegexAnnotation,
     rewriteTargetAnnotation}

\* The keys of the meshlessWarningAnnotations map.
meshlessWarningAnnotations == {authURLAnnotation, authTLSSecretAnnotation}

\* A severity for the blockers that does not block.
BlockerSeverity_Advisory == WarningNotification

\* The severity appLevelWarningsFeature gives to the app-level annotations.
BlockerSeverity == ErrorNotification

\* strings.Contains(value, "$")
ContainsDollar(value) == \E i \in 1..Len(value) : value[i] = "$"

\* The notifications of one iteration of appLevelWarningsFeature's loop. The
\* message of a notification is represented by its headline and annotation.
AppLevelNotifications(ing) ==
    LET ann == ing.Annotations
        rewrite == AnnChars(ann, rewriteTargetAnnotation)
    IN  SetToBag({Notification(BlockerSeverity, "MIGRATION BLOCKER - " \o a, IngressKey(ing)) :
                    a \in appLevelAnnotations \cap DOMAIN ann})
        (+) SetToBag({Notification(InfoNotification, "AUTH CONFIG GENERATED - " \o a,
                                   IngressKey(ing)) :
                        a \in meshlessWarningAnnotations \cap DOMAIN ann})
        (+) (IF rewrite # <<>> /\ ContainsDollar(rewrite)
             THEN SetToBag({Notification(BlockerSeverity,
                                "MIGRATION BLOCKER - rewrite-target with capture groups",
                                IngressKey(ing))})
             ELSE EmptyBag)

\* appLevelWarningsFeature: the notifications after the pass; it reads only the
\* Ingresses and returns no error.
RECURSIVE appLevelWarningsFeature(_, _)
appLevelWarningsFeature(ings, notes) ==
    IF ings = <<>> THEN notes
    ELSE appLevelWarningsFeature(Tail(ings), notes (+) AppLevelNotifications(Head(ings)))

----------------------------------------------------------------------------
(* Backend-protocol pass *)

backendProtocolAnnotation == "nginx.ingress.kubernetes.io/backend-protocol"
proxySSLSecretAnnotation == "nginx.ingress.kubernetes.io/proxy-ssl-secret"
proxySSLVerifyAnnotation == "nginx.ingress.kubernetes.io/proxy-ssl-verify"
proxySSLNameAnnotation == "nginx.ingress.kubernetes.io/proxy-ssl-name"

\* strings.ToUpper on the protocol and method names the model uses.
ToUpper(str) ==
    CASE str = "https" -> "HTTPS"
      [] str = "grpcs" -> "GRPCS"
      [] str = "grpc" -> "GRPC"
      [] str = "http" -> "HTTP"
      [] str = "get" -> "GET"
      [] str = "post" -> "POST"
      [] OTHER -> str

\* A parser that looks at the backend protocol alone.
parseBackendTLSConfig_ProtocolOnly(ingress) ==
    LET ann == ingress.Annotations
        protocol == AnnStr(ann, backendProtocolAnnotation)
        verifyStr == AnnStr(ann, proxySSLVerifyAnnotation)
    IN  IF protocol # "HTTPS" /\ protocol # "GRPCS"
        THEN <<>>
        ELSE <<[protocol |-> ToUpper(protocol),
                sslSecret |-> AnnStr(ann, proxySSLSecretAnnotation),
                sslName |-> AnnStr(ann, proxySSLNameAnnotation),
                sslVerify |-> (verifyStr = "on" \/ verifyStr = "true"),
                namespace |-> ingress.Namespace]>>

\* parseBackendTLSConfig: <<>> for nil, else the one-element config. The
\* protocol is compared as written and upper-cased only afterwards.
parseBackendTLSConfig(ingress) ==
    LET ann == ingress.Annotations
        protocol == IF AnnStr(ann, backendProtocolAnnotation) = "" THEN "HTTP"
                    ELSE AnnStr(ann, backendProtocolAnnotation)
        verifyStr == AnnStr(ann, proxySSLVerifyAnnotation)
    IN  IF protocol # "HTTPS" /\ protocol # "GRPCS" /\ AnnStr(ann, proxySSLSecretAnnotation) = ""
        THEN <<>>
        ELSE <<[protocol |-> ToUpper(protocol),
                sslSecret |-> AnnStr(ann, proxySSLSecretAnnotation),
                sslName |-> AnnStr(ann, proxySSLNameAnnotation),
                sslVerify |-> (verifyStr = "on" \/ verifyStr = "true"),
                namespace |-> ingress.Namespace]>>

\* A sequence without the elements that repeat an earlier one.
RECURSIVE Unique(_)
Unique(seq) ==
    IF seq = <<>> THEN <<>>
    ELSE LET init == Unique(SubSeq(seq, 1, Len(seq) - 1))
             last == seq[Len(seq)]
         IN  IF \E i \in 1..Len(init) : init[i] = last THEN init ELSE Append(init, last)

\* extractBackendServices: the default backend, then the rule backends, each
\* (service, port) pair once.
extractBackendServices(ingress) ==
    Unique([i \in 1..Len(ingress.DefaultBackend) |->
                ServiceBackend(ingress.DefaultBackend[i].Service, ingress.DefaultBackend[i].Port)]
           \o [i \in 1..Len(ingress.Rules) |->
                ServiceBackend(ingress.Rules[i].Service, ingress.Rules[i].Port)])

\* A policy that always trusts the system certificates, CA reference or not.
buildBackendTLSPolicy_AlwaysSystem(name, namespace, serviceName, config) ==
    [Namespace |-> namespace, Name |-> name,
     TargetService |-> serviceName,
     Hostname |-> IF config.sslName = "" THEN serviceName ELSE config.sslName,
     CACertificateRefs |-> IF config.sslSecret # "" THEN <<"ca-ame-nginx">> ELSE <<>>,
     WellKnownCACertificates |-> <<"System">>]

\* buildBackendTLSPolicy: the validation hostname is proxy-ssl-name, or the
\* service name; the CA reference when proxy-ssl-secret is set, the system
\* certificates otherwise.
buildBackendTLSPolicy(name, namespace, serviceName, config) ==
    [Namespace |-> namespace, Name |-> name,
     TargetService |-> serviceName,
     Hostname |-> IF config.sslName = "" THEN serviceName ELSE config.sslName,
     CACertificateRefs |-> IF config.sslSecret # "" THEN <<"ca-ame-nginx">> ELSE <<>>,
     WellKnownCACertificates |-> IF config.sslSecret # "" THEN <<>> ELSE <<"System">>]

\* An existence test that never finds a policy.
PolicyExists_Never(policies, policyKey) == FALSE

\* The test that makes the pass skip a backend whose policy is already there.
PolicyExists(policies, policyKey) == policyKey \in DOMAIN policies

\* The loop over the backends of one Ingress: st is [policies, notes].
RECURSIVE BackendPolicies(_, _, _, _)
BackendPolicies(ingress, config, backends, st) ==
    IF backends = <<>> THEN st
    ELSE LET serviceName == Head(backends).Service
             policyName == serviceName \o "-backend-tls"
             policyKey == NamespacedName(ingress.Namespace, policyName)
             next == IF PolicyExists(st.policies, policyKey) THEN st
                     ELSE [policies |-> Put(st.policies, policyKey,
                                            buildBackendTLSPolicy(policyName, ingress.Namespace,
                                                                  serviceName, config)),
                           notes |-> Notify(st.notes, InfoNotification,
                                            "created BackendTLSPolicy " \o ingress.Namespace
                                                \o "/" \o policyName,
                                            IngressKey(ingress))]
         IN  BackendPolicies(ingress, config, Tail(backends), next)

\* backendProtocolFeature: [policies, notes] after the pass over the Ingresses.
RECURSIVE backendProtocolFeature(_, _)
backendProtocolFeature(ings, st) ==
    IF ings = <<>> THEN st
    ELSE LET config == parseBackendTLSConfig(Head(ings))
             next == IF config = <<>> THEN st
                     ELSE BackendPolicies(Head(ings), config[1],
                                          extractBackendServices(Head(ings)), st)
         IN  backendProtocolFeature(Tail(ings), next)

----------------------------------------------------------------------------
(* Proxy-settings pass *)

proxyBodySizeAnnotation == "nginx.ingress.kubernetes.io/proxy-body-size"
proxyBufferingAnnotation == "nginx.ingress.kubernetes.io/proxy-buffering"
proxyRequestBufferingAnnotation == "nginx.ingress.kubernetes.io/proxy-request-buffering"
loadBalanceAnnotation == "nginx.ingress.kubernetes.io/load-balance"

UpperCase == <<"A", "B", "C", "D", "E", "F", "G", "H", "I", "J", "K", "L", "M",
               "N", "O", "P", "Q", "R", "S", "T", "U", "V", "W", "X", "Y", "Z">>
LowerCase == <<"a", "b", "c", "d", "e", "f", "g", "h", "i", "j", "k", "l", "m",
               "n", "o", "p", "q", "r", "s", "t", "u", "v", "w", "x", "y", "z">>

\* strings.ToLower on a sequence of characters.
ToLower(value) ==
    [i \in 1..Len(value) |->
        IF \E j \in 1..26 : UpperCase[j] = value[i]
        THEN LowerCase[CHOOSE j \in 1..26 : UpperCase[j] = value[i]]
        ELSE value[i]]

\* strings.TrimSpace on a sequence of characters.
RECURSIVE TrimSpace(_)
TrimSpace(value) ==
    IF value = <<>> THEN value
    ELSE IF Head(value) = " " THEN TrimSpace(Tail(value))
    ELSE IF value[Len(value)] = " " THEN TrimSpace(SubSeq(value, 1, Len(value) - 1))
    ELSE value

parseOnOff(value) ==
    LET v == ToLower(TrimSpace(value))
    IN  v = <<"o", "n">> \/ v = <<"t", "r", "u", "e">> \/ v = <<"1">>

\* parseProxySettings: <<>> for nil, else the one-element config, whose
\* buffering fields are optional booleans.
parseProxySettings(ing) ==
    LET bodySize == AnnChars(ing.Annotations, proxyBodySizeAnnotation)
        buffering == AnnChars(ing.Annotations, proxyBufferingAnnotation)
        reqBuffering == AnnChars(ing.Annotations, proxyRequestBufferingAnnotation)
    IN  IF bodySize = <<>> /\ buffering = <<>> /\ reqBuffering = <<>> THEN <<>>
        ELSE <<[ProxyBodySize |-> bodySize,
                ProxyBuffering |-> IF buffering # <<>> THEN <<parseOnOff(buffering)>> ELSE <<>>,
                ProxyRequestBuffering |-> IF reqBuffering # <<>> THEN <<parseOnOff(reqBuffering)>>
                                          ELSE <<>>]>>

\* What the first loop of proxySettingsFeature writes into a route context.
ProxySettingsStore(routeCtx, config) ==
    LET n0 == NginxOf(routeCtx)
        n1 == IF config.ProxyBodySize # <<>>
              THEN [n0 EXCEPT !.ProxyBodySize = config.ProxyBodySize] ELSE n0
        n2 == IF config.ProxyBuffering # <<>>
              THEN [n1 EXCEPT !.ProxyBuffering = config.ProxyBuffering] ELSE n1
        n3 == IF config.ProxyRequestBuffering # <<>>
              THEN [n2 EXCEPT !.ProxyRequestBuffering = config.ProxyRequestBuffering] ELSE n2
    IN  [routeCtx EXCEPT !.IngressNginx = <<n3>>]

ProxySettingsNotes(notes, ing, config) ==
    notes (+) SetToBag({Notification(InfoNotification, about, IngressKey(ing)) :
                about \in (IF config.ProxyBodySize # <<>> THEN {"proxy-body-size"} ELSE {})
                          \cup (IF config.ProxyBuffering # <<>> THEN {"proxy-buffering"} ELSE {})
                          \cup (IF config.ProxyRequestBuffering # <<>>
                                THEN {"proxy-request-buffering"} ELSE {})})

\* One iteration of the first loop: the possible states [routes, services,
\* notes] after the Ingress is processed, one per route findHTTPRouteKey can
\* return.
ProxySettingsStep(ing, st) ==
    LET config == parseProxySettings(ing)
    IN  IF config = <<>> THEN {st}
        ELSE {IF routeKey = ZeroKey THEN st
              ELSE [st EXCEPT !.routes = Put(st.routes, routeKey,
                                             ProxySettingsStore(st.routes[routeKey], config[1])),
                              !.notes = ProxySettingsNotes(st.notes, ing, config[1])] :
                routeKey \in findHTTPRouteKey(st.routes, IngressKey(ing))}

RECURSIVE ProxySettingsLoop(_, _)
ProxySettingsLoop(ings, st) ==
    IF ings = <<>> THEN {st}
    ELSE UNION {ProxySettingsLoop(Tail(ings), s1) : s1 \in ProxySettingsStep(Head(ings), st)}

\* The inner loop of the second loop, over the rules of one Ingress: the
\* load-balance algorithm is stored on the rule's service if the IR knows it.
RECURSIVE LoadBalanceRules(_, _, _, _)
LoadBalanceRules(ing, lbAlgorithm, rules, st) ==
    IF rules = <<>> THEN st
    ELSE LET svcKey == NamespacedName(ing.Namespace, Head(rules).Service)
             next == IF svcKey \notin DOMAIN st.services THEN st
                     ELSE [st EXCEPT
                             !.services = Put(st.services, svcKey,
                                 [IngressNginx |-> <<[LoadBalanceAlgorithm |-> lbAlgorithm]>>]),
                             !.notes = Notify(st.notes, InfoNotification,
                                              "load-balance " \o svcKey.Name, IngressKey(ing))]
         IN  LoadBalanceRules(ing, lbAlgorithm, Tail(rules), next)

LoadBalanceStep(ing, st) ==
    LET lbAlgorithm == AnnStr(ing.Annotations, loadBalanceAnnotation)
    IN  IF lbAlgorithm = "" THEN st
        ELSE LoadBalanceRules(ing, lbAlgorithm, ing.Rules, st)

RECURSIVE LoadBalanceLoop(_, _)
LoadBalanceLoop(ings, st) ==
    IF ings = <<>> THEN st
    ELSE LoadBalanceLoop(Tail(ings), LoadBalanceStep(Head(ings), st))

\* proxySettingsFeature: the set of possible states [routes, services, notes].
proxySettingsFeature(ings, st) == {LoadBalanceLoop(ings, s1) : s1 \in ProxySettingsLoop(ings, st)}

----------------------------------------------------------------------------
(* State of a conversion run *)

GatewayConfigs ==
    {[Mode |-> "centralized", Namespace |-> DefaultGatewayNamespace, Name |-> DefaultGatewayName],
     [Mode |-> "centralized", Namespace |-> "a", Name |-> DefaultGatewayName],
     [Mode |-> "per-namespace", Namespace |-> DefaultGatewayNamespace, Name |-> DefaultGatewayName]}

EmptyGatewayResources ==
    [HTTPRoutes |-> EmptyMap, Gateways |-> EmptyMap, ReferenceGrants |-> EmptyMap,
     GatewayExtensions |-> {}]

\* The state once the Ingresses are read and the converter has built the IR.
Start(ings, cfg, passes) ==
    /\ ingresses = ings
    /\ pending = passes
    /\ gatewayConfig = cfg
    /\ ir = CommonToIR(ings)
    /\ gatewayResources = EmptyGatewayResources
    /\ notifications = EmptyBag
    /\ errs = <<>>
    /\ pc = "features"

PassState == [routes |-> ir.HTTPRoutes, errs |-> errs, notes |-> notifications]

\* The effect of a route-level feature pass that ends in state st.
ApplyPass(st) ==
    /\ ir' = [ir EXCEPT !.HTTPRoutes = st.routes]
    /\ errs' = st.errs
    /\ notifications' = st.notes

\* A registered feature pass runs once; the IR is complete when all have run.
RunPass(name) ==
    /\ pc = "features"
    /\ name \in pending
    /\ pending' = pending \ {name}
    /\ pc' = IF pending \ {name} = {} THEN "ir" ELSE "features"

HostX == <<"x", ".", "i", "o">>
HostY == <<"y", ".", "i", "o">>

----------------------------------------------------------------------------
(* Specification of a conversion run: a list of Ingresses with SSL-redirect *)
(* annotations, the SSL-redirect pass, then Provider.ToGatewayResources     *)
(* step by step.                                                            *)

MaxIngresses == 2

IngressNames == [i \in 1..3 |-> CASE i = 1 -> "i1" [] i = 2 -> "i2" [] i = 3 -> "i3"]

Namespaces == {"a", "b"}
Hosts == {HostX, HostY}

\* The annotation sets of the SSL-redirect pass.
SSLAnnotations ==
    {EmptyMap,
     (sslRedirectAnnotation :> "true"),
     (forceSSLRedirectAnnotation :> "true"),
     (sslRedirectAnnotation :> "false") @@ (forceSSLRedirectAnnotation :> "true")}

\* The Ingress lists of n Ingresses: the i-th is named i<i>, which keeps the
\* names distinct within a namespace as the API server does.
IngressLists(n) ==
    {[i \in 1..n |-> Ingress(f[i][1], IngressNames[i], f[i][3],
                             <<IngressRule(f[i][2], "svc", 80)>>, <<>>)] :
        f \in [1..n -> Namespaces \X Hosts \X SSLAnnotations]}

Init ==
    \E n \in 1..MaxIngresses : \E ings \in IngressLists(n) : \E cfg \in GatewayConfigs :
        Start(ings, cfg, {"ssl-redirect"})

SSLRedirectFeature ==
    /\ RunPass("ssl-redirect")
    /\ ApplyPass(sslRedirectFeature(ingresses, PassState))
    /\ UNCHANGED <<ingresses, gatewayConfig, gatewayResources>>

ToGatewayResources_Common ==
    /\ pc = "ir"
    /\ gatewayResources' = CommonToGatewayResources(ir)
    /\ pc' = "common"
    /\ UNCHANGED <<pending, ingresses, gatewayConfig, ir, notifications, errs>>

TransformGatewaysForMode ==
    /\ pc = "common"
    /\ gatewayResources' \in transformGatewaysForMode(gatewayResources, gatewayConfig)
    /\ pc' = "transformed"
    /\ UNCHANGED <<pending, ingresses, gatewayConfig, ir, notifications, errs>>

\* buildSSLRedirectRoutes, with the notification it emits about every redirect
\* route it adds.
BuildSSLRedirectRoutes ==
    /\ pc = "transformed"
    /\ \E routes \in buildSSLRedirectRoutes(ir.HTTPRoutes, gatewayResources.HTTPRoutes,
                                            gatewayConfig) :
          /\ gatewayResources' = [gatewayResources EXCEPT !.HTTPRoutes = routes]
          /\ notifications' = notifications (+)
                SetToBag({Notification(InfoNotification, "ssl-redirect-route", k) :
                             k \in (DOMAIN routes) \ DOMAIN gatewayResources.HTTPRoutes})
    /\ pc' = "redirects"
    /\ UNCHANGED <<pending, ingresses, gatewayConfig, ir, errs>>

BuildCrossNamespaceReferenceGrants ==
    /\ pc = "redirects"
    /\ LET res == buildCrossNamespaceReferenceGrants(ir.HTTPRoutes,
                      gatewayResources.ReferenceGrants, gatewayConfig, notifications)
       IN  /\ gatewayResources' = [gatewayResources EXCEPT !.ReferenceGrants = res.grants]
           /\ notifications' = res.notes
    /\ pc' = "grants"
    /\ UNCHANGED <<pending, ingresses, gatewayConfig, ir, errs>>

EmitCentralizedModeWarnings ==
    /\ pc = "grants"
    /\ notifications' = emitCentralizedModeWarnings(ir.HTTPRoutes, gatewayConfig, notifications)
    /\ pc' = "done"
    /\ UNCHANGED <<pending, ingresses, gatewayConfig, ir, gatewayResources, errs>>

Next ==
    \/ SSLRedirectFeature
    \/ ToGatewayResources_Common
    \/ TransformGatewaysForMode
    \/ BuildSSLRedirectRoutes
    \/ BuildCrossNamespaceReferenceGrants
    \/ EmitCentralizedModeWarnings

Spec == Init /\ [][Next]_vars

----------------------------------------------------------------------------
(* Claims about a conversion run (checked under Spec) *)

AfterTransform == pc \in {"transformed", "redirects", "grants", "done"}
AfterRedirects == pc \in {"redirects", "grants", "done"}
AfterGrants == pc \in {"grants", "done"}

\* The namespaces that hold an HTTPRoute of the output.
RouteNamespaces == {k.Namespace : k \in DOMAIN gatewayResources.HTTPRoutes}

\* The gateway a parentRef of the route resolves to.
ParentOf(route, i) ==
    NamespacedName(IF route.ParentRefs[i].Namespace # <<>> THEN route.ParentRefs[i].Namespace[1]
                   ELSE route.Namespace,
                   route.ParentRefs[i].Name)

\* C1: in per-namespace mode, after the transform every namespace N that holds
\* routes has its own Gateway (N-gateway, N-gateway), and every parentRef of a
\* route of N points at that Gateway, never at the Gateway of another namespace.
C1_PerNamespaceOwnGateway ==
    (AfterTransform /\ ~IsCentralized(gatewayConfig)) =>
        \A N \in RouteNamespaces :
            LET own == NamespacedName(N \o "-gateway", N \o "-gateway")
            IN  /\ own \in DOMAIN gatewayResources.Gateways
                /\ \A k \in DOMAIN gatewayResources.HTTPRoutes :
                      k.Namespace = N =>
                          \A i \in 1..Len(gatewayResources.HTTPRoutes[k].ParentRefs) :
                              ParentOf(gatewayResources.HTTPRoutes[k], i) = own

\* C2: in centralized mode, after the transform the Gateways map is empty and
\* every parentRef of every HTTPRoute points at the configured gateway.
C2_CentralizedNoGateways ==
    (AfterTransform /\ IsCentralized(gatewayConfig)) =>
        /\ DOMAIN gatewayResources.Gateways = {}
        /\ \A k \in DOMAIN gatewayResources.HTTPRoutes :
              \A i \in 1..Len(gatewayResources.HTTPRoutes[k].ParentRefs) :
                  /\ gatewayResources.HTTPRoutes[k].ParentRefs[i].Namespace
                        = <<gatewayConfig.Namespace>>
                  /\ gatewayResources.HTTPRoutes[k].ParentRefs[i].Name = gatewayConfig.Name

\* C2's case: a centralized run with routes in two namespaces has been
\* transformed, and its routes reference the configured gateway.
C2_Witness ==
    /\ pc = "transformed"
    /\ IsCentralized(gatewayConfig)
    /\ RouteNamespaces = {"a", "b"}
    /\ DOMAIN gatewayResources.Gateways = {}
    /\ \A k \in DOMAIN gatewayResources.HTTPRoutes :
          ParentOf(gatewayResources.HTTPRoutes[k], 1)
              = NamespacedName(gatewayConfig.Namespace, gatewayConfig.Name)

\* The (source namespace, gateway namespace) pairs of the IR's routes whose
\* two namespaces differ.
CrossNamespacePairs ==
    {p \in {<<k.Namespace, GetGatewayRef(gatewayConfig, k.Namespace).Namespace>> :
                k \in DOMAIN ir.HTTPRoutes} : p[1] # p[2]}

GrantsOfPair(p) ==
    {k \in DOMAIN gatewayResources.ReferenceGrants :
        /\ k.Namespace = p[2]
        /\ \E f \in gatewayResources.ReferenceGrants[k].From : f.Namespace = p[1]}

\* C3: once the grants are built there is exactly one ReferenceGrant per
\* distinct (source namespace, gateway namespace) pair whose namespaces differ,
\* whatever the number of routes of the source namespace, and no grant at all
\* for a source namespace that is its gateway's namespace.
C3_OneGrantPerPair ==
    AfterGrants =>
        /\ Cardinality(DOMAIN gatewayResources.ReferenceGrants) = Cardinality(CrossNamespacePairs)
        /\ \A p \in CrossNamespacePairs : Cardinality(GrantsOfPair(p)) = 1
        /\ \A k \in DOMAIN gatewayResources.ReferenceGrants :
              \A f \in gatewayResources.ReferenceGrants[k].From : f.Namespace # k.Namespace

\* C3's case: two routes of namespace b behind a gateway of another namespace
\* have produced a single grant.
C3_Witness ==
    /\ pc = "grants"
    /\ Cardinality(DOMAIN ir.HTTPRoutes) = 2
    /\ \A k \in DOMAIN ir.HTTPRoutes : k.Namespace = "b"
    /\ Cardinality(DOMAIN gatewayResources.ReferenceGrants) = 1

\* The Ingress sets force-ssl-redirect to "true" and does not set ssl-redirect
\* to "true".
ForceOnly(ing) ==
    /\ AnnStr(ing.Annotations, forceSSLRedirectAnnotation) = "true"
    /\ AnnStr(ing.Annotations, sslRedirectAnnotation) # "true"

\* The key of the route the rule of the Ingress contributes to.
RouteKeyOf(ing, rule) ==
    LET rg == CHOOSE g \in GetRuleGroups(ingresses) :
                  g.Namespace = ing.Namespace /\ g.Host = rule.Host
    IN  NamespacedName(rg.Namespace, RouteName(rg.Name, rg.Host))

RedirectRoutesOf(routeKey) ==
    {k \in DOMAIN gatewayResources.HTTPRoutes :
        /\ gatewayResources.HTTPRoutes[k].Source = RedirectSource
        /\ k = NamespacedName(routeKey.Namespace, routeKey.Name \o "-redirect")}

\* C5: for an Ingress whose force-ssl-redirect is "true" while ssl-redirect is
\* absent or not "true", every route it contributes to has the SSL-redirect
\* flag set once the pass has run, and has a redirect route once the redirect
\* routes are built.
C5_ForceSSLRedirectAlone ==
    \A n \in 1..Len(ingresses) : \A r \in 1..Len(ingresses[n].Rules) :
        ForceOnly(ingresses[n]) =>
            LET key == RouteKeyOf(ingresses[n], ingresses[n].Rules[r])
            IN  /\ pc # "features" =>
                      /\ key \in DOMAIN ir.HTTPRoutes
                      /\ NeedsRedirect(ir.HTTPRoutes[key])
                /\ AfterRedirects => RedirectRoutesOf(key) # {}

\* C5's case: no Ingress sets ssl-redirect to "true", one sets
\* force-ssl-redirect alone, and its redirect route is part of the output.
C5_Witness ==
    /\ pc = "done"
    /\ \A n \in 1..Len(ingresses) :
          AnnStr(ingresses[n].Annotations, sslRedirectAnnotation) # "true"
    /\ \E n \in 1..Len(ingresses) :
          /\ ForceOnly(ingresses[n])
          /\ sslRedirectAnnotation \notin DOMAIN ingresses[n].Annotations
          /\ RedirectRoutesOf(RouteKeyOf(ingresses[n], ingresses[n].Rules[1])) # {}

RedirectRoutes ==
    {gatewayResources.HTTPRoutes[k] : k \in {x \in DOMAIN gatewayResources.HTTPRoutes :
        gatewayResources.HTTPRoutes[x].Source = RedirectSource}}

\* The hostname with every dot replaced by a dash, as a string.
Dashed(hostname) == Join([i \in 1..Len(hostname) |-> IF hostname[i] = "." THEN "-" ELSE hostname[i]])

----------------------------------------------------------------------------
(* Specification of the rate-limit path: one Ingress with rate-limit       *)
(* annotations, the rate-limit pass, then the EnvoyFilter materializer.    *)

RpsValues == {<<>>, <<"0">>, <<"5">>, <<"1", "0", "0", "0">>, <<"x">>}
RpmValues == {<<>>, <<"0">>, <<"1">>, <<"5", "9">>, <<"6", "0">>, <<"6", "1">>,
              <<"1", "2", "0">>, <<"-", "9", "0">>, <<"1", "m">>}
BurstValues == {<<>>, <<"0">>, <<"3">>, <<"b">>}
ZoneValues ==
    {<<>>,
     <<"z", " ", "r", "a", "t", "e", "=", "7", "r", "/", "s">>,
     <<"r", "a", "t", "e", "=", "9", "0", "r", "/", "m">>,
     <<"r", "a", "t", "e", "=", "2", "r", "/", "s", " ", "r", "a", "t", "e", "=",
       "1", "8", "0", "r", "/", "m">>,
     <<"r", "a", "t", "e", "=", "r", "/", "s">>}

\* The annotation map that holds the non-empty values among the given ones.
RateAnnotations(rps, rpm, burst, zone) ==
    LET all == [k \in {limitRPSAnnotation, limitRPMAnnotation, limitBurstAnnotation,
                       limitReqZoneAnnotation} |->
                  CASE k = limitRPSAnnotation -> rps
                    [] k = limitRPMAnnotation -> rpm
                    [] k = limitBurstAnnotation -> burst
                    [] k = limitReqZoneAnnotation -> zone]
    IN  [k \in {x \in DOMAIN all : all[x] # <<>>} |-> all[k]]

InitRate ==
    \E rps \in RpsValues, rpm \in RpmValues, burst \in BurstValues, zone \in ZoneValues,
       cfg \in GatewayConfigs :
        Start(<<Ingress("a", "web", RateAnnotations(rps, rpm, burst, zone),
                        <<IngressRule(HostX, "svc", 80)>>, <<>>)>>, cfg, {"rate-limit"})

RateLimitFeature ==
    /\ RunPass("rate-limit")
    /\ \E st \in rateLimitFeature(ingresses, PassState) : ApplyPass(st)
    /\ UNCHANGED <<ingresses, gatewayConfig, gatewayResources>>

BuildIstioEnvoyFilters ==
    /\ pc = "ir"
    /\ \E ext \in buildIstioEnvoyFilters(gatewayConfig, ir.HTTPRoutes,
                                         gatewayResources.GatewayExtensions) :
          gatewayResources' = [gatewayResources EXCEPT !.GatewayExtensions = ext]
    /\ pc' = "filters"
    /\ UNCHANGED <<pending, ingresses, gatewayConfig, ir, notifications, errs>>

NextRate == RateLimitFeature \/ BuildIstioEnvoyFilters

SpecRate == InitRate /\ [][NextRate]_vars

----------------------------------------------------------------------------
(* Claims about the rate-limit path (checked under SpecRate) *)

\* The annotations of the one Ingress of the rate-limit path.
RateAnn == ingresses[1].Annotations

\* limit-rps is absent and limit-rpm holds the integer m.
RpmOnly(m) ==
    /\ AnnChars(RateAnn, limitRPSAnnotation) = <<>>
    /\ AnnChars(RateAnn, limitRPMAnnotation) # <<>>
    /\ ~Atoi(AnnChars(RateAnn, limitRPMAnnotation)).err
    /\ Atoi(AnnChars(RateAnn, limitRPMAnnotation)).val = m

RpmSamples == {0, 1, 59, 60, 61, 120}

\* The RPS stored for the one route of the rate-limit path (0 when unset).
StoredRPS ==
    LET k == CHOOSE x \in DOMAIN ir.HTTPRoutes : TRUE
    IN  IF ir.HTTPRoutes[k].IngressNginx = <<>> THEN 0
        ELSE ir.HTTPRoutes[k].IngressNginx[1].RateLimitRPS

StoredBurst ==
    LET k == CHOOSE x \in DOMAIN ir.HTTPRoutes : TRUE
    IN  IF ir.HTTPRoutes[k].IngressNginx = <<>> THEN 0
        ELSE ir.HTTPRoutes[k].IngressNginx[1].RateLimitBurst

RateLimitFilters ==
    {f \in gatewayResources.GatewayExtensions : f.Filter = "envoy.filters.http.local_ratelimit"}

\* C10: once the filters are materialized, a route with RateLimitRPS = r > 0 has
\* one rate-limit filter, with tokens_per_fill = r and with max_tokens = 5 * r
\* when its burst is 0 and max_tokens = the burst otherwise.
C10_BurstDefault ==
    (pc = "filters" /\ StoredRPS > 0) =>
        /\ Cardinality(RateLimitFilters) = 1
        /\ \A f \in RateLimitFilters :
            /\ f.token_bucket.tokens_per_fill = StoredRPS
            /\ StoredBurst = 0 => f.token_bucket.max_tokens = 5 * StoredRPS
            /\ StoredBurst > 0 => f.token_bucket.max_tokens = StoredBurst

\* C10's case: RPS 1000 without a burst is materialized with max_tokens 5000.
C10_Witness ==
    /\ pc = "filters"
    /\ StoredRPS = 1000
    /\ StoredBurst = 0
    /\ \E f \in RateLimitFilters : f.token_bucket.max_tokens = 5000

----------------------------------------------------------------------------
(* Specification of the app-level warnings pass *)

DefaultGatewayConfig ==
    [Mode |-> "centralized", Namespace |-> DefaultGatewayNamespace, Name |-> DefaultGatewayName]

\* The annotation sets of the app-level warnings pass.
WarnAnnotations ==
    {EmptyMap,
     (serverSnippetAnnotation :> <<"s">>),
     (configurationSnippetAnnotation :> <<"c">>) @@ (authTLSSecretAnnotation :> <<"a", "/", "s">>),
     (useRegexAnnotation :> <<"t", "r", "u", "e">>),
     (rewriteTargetAnnotation :> <<"/", "$", "1">>),
     (rewriteTargetAnnotation :> <<"/", "p">>),
     (rewriteTargetAnnotation :> <<>>),
     (authURLAnnotation :> <<"u">>),
     (serverSnippetAnnotation :> <<"s">>) @@ (authURLAnnotation :> <<"u">>)
        @@ (sslRedirectAnnotation :> "true")}

WarnIngressLists(n) ==
    {[i \in 1..n |-> Ingress(f[i][1], IngressNames[i], f[i][2],
                             <<IngressRule(HostX, "svc", 80)>>, <<>>)] :
        f \in [1..n -> Namespaces \X WarnAnnotations]}

InitWarn ==
    \E n \in 1..MaxIngresses : \E ings \in WarnIngressLists(n) : \E cfg \in GatewayConfigs :
        Start(ings, cfg, {"app-level-warnings"})

AppLevelWarningsFeature ==
    /\ RunPass("app-level-warnings")
    /\ notifications' = appLevelWarningsFeature(ingresses, notifications)
    /\ UNCHANGED <<ingresses, gatewayConfig, ir, gatewayResources, errs>>

NextWarn == AppLevelWarningsFeature

SpecWarn == InitWarn /\ [][NextWarn]_vars

\* The notifications about the Ingress.
NotificationsOf(ing) == {n \in BagToSet(notifications) : n.Object = IngressKey(ing)}

\* The Ingress carries a blocker: a server-snippet, configuration-snippet or
\* use-regex annotation, or a rewrite-target with a capture-group reference.
HasBlocker(ing) ==
    \/ {serverSnippetAnnotation, configurationSnippetAnnotation, useRegexAnnotation}
           \cap DOMAIN ing.Annotations # {}
    \/ \E i \in 1..Len(AnnChars(ing.Annotations, rewriteTargetAnnotation)) :
           AnnChars(ing.Annotations, rewriteTargetAnnotation)[i] = "$"

\* The notification is a diagnostic for one of the blocker annotations.
IsBlockerDiagnostic(n) ==
    \/ \E a \in {serverSnippetAnnotation, configurationSnippetAnnotation, useRegexAnnotation,
                 rewriteTargetAnnotation} : n.About = "MIGRATION BLOCKER - " \o a
    \/ n.About = "MIGRATION BLOCKER - rewrite-target with capture groups"

\* C4: once the pass has run, every Ingress that carries a blocker annotation
\* has at least one ERROR notification, whatever the gateway mode and its other
\* annotations, and no diagnostic for a blocker annotation has a lower severity.
C4_BlockerDetection ==
    pc = "ir" =>
        /\ \A i \in 1..Len(ingresses) :
              HasBlocker(ingresses[i]) =>
                  \E n \in NotificationsOf(ingresses[i]) :
                      n.Type = ErrorNotification /\ IsBlockerDiagnostic(n)
        /\ \A n \in BagToSet(notifications) : IsBlockerDiagnostic(n) => n.Type = ErrorNotification

\* C4's case: in per-namespace mode an Ingress with a server-snippet, an
\* auth-url and an ssl-redirect annotation has its ERROR notification.
C4_Witness ==
    /\ pc = "ir"
    /\ ~IsCentralized(gatewayConfig)
    /\ \E i \in 1..Len(ingresses) :
          /\ {serverSnippetAnnotation, authURLAnnotation, sslRedirectAnnotation}
                \subseteq DOMAIN ingresses[i].Annotations
          /\ \E n \in NotificationsOf(ingresses[i]) : n.Type = ErrorNotification

----------------------------------------------------------------------------
(* Specification of the backend-protocol pass, run twice on the same IR *)

\* The annotation sets of the backend-protocol pass.
TLSAnnotations ==
    {EmptyMap,
     (backendProtocolAnnotation :> "HTTPS"),
     (backendProtocolAnnotation :> "GRPCS") @@ (proxySSLNameAnnotation :> "sni"),
     (backendProtocolAnnotation :> "https") @@ (proxySSLSecretAnnotation :> "a/s")
        @@ (proxySSLVerifyAnnotation :> "on")}

\* The backends of an Ingress: its rules and its optional default backend.
TLSBackends ==
    {[Rules |-> <<IngressRule(HostX, "svc1", 80)>>, DefaultBackend |-> <<>>],
     [Rules |-> <<IngressRule(HostX, "svc1", 80), IngressRule(HostX, "svc1", 443)>>,
      DefaultBackend |-> <<>>],
     [Rules |-> <<IngressRule(HostX, "svc1", 80), IngressRule(HostY, "svc2", 80)>>,
      DefaultBackend |-> <<>>],
     [Rules |-> <<IngressRule(HostX, "svc2", 80)>>,
      DefaultBackend |-> <<ServiceBackend("svc1", 80)>>]}

TLSIngressLists(n) ==
    {[i \in 1..n |-> Ingress(f[i][1], IngressNames[i], f[i][2],
                             f[i][3].Rules, f[i][3].DefaultBackend)] :
        f \in [1..n -> Namespaces \X TLSAnnotations \X TLSBackends]}

InitTLS ==
    \E n \in 1..MaxIngresses : \E ings \in TLSIngressLists(n) :
        Start(ings, DefaultGatewayConfig, {"backend-protocol"})

TLSPassState == [policies |-> ir.BackendTLSPolicies, notes |-> notifications]

ApplyTLSPass(st) ==
    /\ ir' = [ir EXCEPT !.BackendTLSPolicies = st.policies]
    /\ notifications' = st.notes

BackendProtocolFeature ==
    /\ RunPass("backend-protocol")
    /\ ApplyTLSPass(backendProtocolFeature(ingresses, TLSPassState))
    /\ UNCHANGED <<ingresses, gatewayConfig, gatewayResources, errs>>

\* The pass run again on the IR it has populated.
BackendProtocolFeatureAgain ==
    /\ pc = "ir"
    /\ ApplyTLSPass(backendProtocolFeature(ingresses, TLSPassState))
    /\ pc' = "rerun"
    /\ UNCHANGED <<pending, ingresses, gatewayConfig, gatewayResources, errs>>

NextTLS == BackendProtocolFeature \/ BackendProtocolFeatureAgain

SpecTLS == InitTLS /\ [][NextTLS]_vars

\* The Ingress is TLS-enabled: its backend protocol is HTTPS or GRPCS, or it
\* names a proxy-ssl-secret.
TLSEnabled(ing) ==
    \/ AnnStr(ing.Annotations, backendProtocolAnnotation) \in {"HTTPS", "GRPCS"}
    \/ AnnStr(ing.Annotations, proxySSLSecretAnnotation) # ""

\* The Ingress references the service, from a rule or as its default backend.
References(ing, service) ==
    \/ \E r \in Range(ing.Rules) : r.Service = service
    \/ \E d \in Range(ing.DefaultBackend) : d.Service = service

\* The (namespace, service) pairs that a TLS-enabled Ingress references.
TLSServices ==
    {p \in Namespaces \X {"svc1", "svc2"} :
        \E i \in 1..Len(ingresses) :
            /\ ingresses[i].Namespace = p[1]
            /\ TLSEnabled(ingresses[i])
            /\ References(ingresses[i], p[2])}

PolicyKeyOf(p) == NamespacedName(p[1], p[2] \o "-backend-tls")

\* The number of notifications about the creation of the policy.
CreationsOf(k) ==
    BagCardinality([n \in {x \in BagToSet(notifications) :
                              x.About = "created BackendTLSPolicy " \o k.Namespace \o "/" \o k.Name}
                    |-> notifications[n]])

\* C7: once the pass has run, every service that TLS-enabled Ingresses of a
\* namespace reference, however many times, has exactly one BackendTLSPolicy,
\* keyed (namespace, <service>-backend-tls) and created once, and there is no
\* other policy; running the pass again leaves the policies and the
\* notifications as they are.
C7_BackendTLSIdempotent ==
    /\ [](pc \in {"ir", "rerun"} =>
            /\ DOMAIN ir.BackendTLSPolicies = {PolicyKeyOf(p) : p \in TLSServices}
            /\ \A p \in TLSServices :
                  /\ {k \in DOMAIN ir.BackendTLSPolicies :
                         /\ k.Namespace = p[1]
                         /\ ir.BackendTLSPolicies[k].TargetService = p[2]} = {PolicyKeyOf(p)}
                  /\ CreationsOf(PolicyKeyOf(p)) = 1)
    /\ [][pc = "ir" => /\ ir'.BackendTLSPolicies = ir.BackendTLSPolicies
                       /\ notifications' = notifications]_vars

\* C7's case: two TLS-enabled Ingresses of namespace a reference svc1, the
\* second one twice, the pass has run twice, and svc1 has its one policy.
C7_Witness ==
    /\ pc = "rerun"
    /\ Len(ingresses) = 2
    /\ \A i \in 1..2 : /\ ingresses[i].Namespace = "a"
                       /\ TLSEnabled(ingresses[i])
                       /\ References(ingresses[i], "svc1")
    /\ Len(ingresses[2].Rules) = 2
    /\ ingresses[2].Rules[1].Service = ingresses[2].Rules[2].Service
    /\ DOMAIN ir.BackendTLSPolicies = {NamespacedName("a", "svc1-backend-tls")}

----------------------------------------------------------------------------
(* Specification of the route-level passes and the materializer: the        *)
(* proxy-settings, rate-limit and SSL-redirect passes in any order, then    *)
(* either the EnvoyFilter generator or Provider.ToGatewayResources.         *)

\* The annotation sets of the route-level passes.
IRAnnotations ==
    {EmptyMap,
     (proxyBodySizeAnnotation :> <<"8", "m">>) @@ (proxyBufferingAnnotation :> <<"o", "f", "f">>)
        @@ (loadBalanceAnnotation :> "ewma"),
     (limitRPSAnnotation :> <<"5">>),
     (sslRedirectAnnotation :> "true")}

IRIngressLists(n) ==
    {[i \in 1..n |-> Ingress(f[i][1], IngressNames[i], f[i][3],
                             <<IngressRule(f[i][2], "svc", 80)>>, <<>>)] :
        f \in [1..n -> Namespaces \X Hosts \X IRAnnotations]}

InitIR ==
    \E n \in 1..MaxIngresses : \E ings \in IRIngressLists(n) : \E cfg \in GatewayConfigs :
        Start(ings, cfg, {"proxy-settings", "rate-limit", "ssl-redirect"})

ProxySettingsFeature ==
    /\ RunPass("proxy-settings")
    /\ \E st \in proxySettingsFeature(ingresses, [routes |-> ir.HTTPRoutes,
                                                  services |-> ir.Services,
                                                  notes |-> notifications]) :
          /\ ir' = [ir EXCEPT !.HTTPRoutes = st.routes, !.Services = st.services]
          /\ notifications' = st.notes
    /\ UNCHANGED <<ingresses, gatewayConfig, gatewayResources, errs>>

NextIR ==
    \/ ProxySettingsFeature
    \/ RateLimitFeature
    \/ SSLRedirectFeature
    \/ BuildIstioEnvoyFilters
    \/ ToGatewayResources_Common
    \/ TransformGatewaysForMode
    \/ BuildSSLRedirectRoutes
    \/ BuildCrossNamespaceReferenceGrants
    \/ EmitCentralizedModeWarnings

SpecIR == InitIR /\ [][NextIR]_vars

\* The Ingresses that contribute to the route: those of its namespace with a
\* rule for one of its hostnames.
Contributors(k) ==
    {i \in 1..Len(ingresses) :
        /\ ingresses[i].Namespace = k.Namespace
        /\ \E r \in Range(ingresses[i].Rules) :
              r.Host \in Range(ir.HTTPRoutes[k].HTTPRoute.Hostnames)}

\* No Ingress that contributes to the route carries one of the annotations.
NoTrigger(k, triggers) ==
    \A i \in Contributors(k) : triggers \cap DOMAIN ingresses[i].Annotations = {}

\* The route has an EnvoyFilter for the concern among the extensions.
HasFilter(k, concern) ==
    \E f \in gatewayResources.GatewayExtensions :
        f.Name = k.Namespace \o "-" \o k.Name \o "-" \o concern

\* The route has a redirect route in the output.
HasRedirectRoute(k) ==
    \E x \in DOMAIN gatewayResources.HTTPRoutes :
        /\ x = NamespacedName(k.Namespace, k.Name \o "-redirect")
        /\ gatewayResources.HTTPRoutes[x].Source = RedirectSource

\* C8 (for the rate-limit, body-size, buffering and SSL-redirect concerns): once
\* all feature passes have run, a route none of whose contributing Ingresses
\* carries a concern's trigger annotation has the concern's IR field unset and
\* no target resource for the concern, whatever the other Ingresses carry.
C8_NoTriggerNoEffect ==
    pc # "features" =>
        \A k \in DOMAIN ir.HTTPRoutes :
            LET nginxIR == NginxOf(ir.HTTPRoutes[k])
            IN  /\ NoTrigger(k, {limitRPSAnnotation, limitRPMAnnotation, limitBurstAnnotation,
                                 limitReqZoneAnnotation,
                                 "nginx.ingress.kubernetes.io/limit-connections"}) =>
                      /\ nginxIR.RateLimitRPS = 0
                      /\ nginxIR.RateLimitBurst = 0
                      /\ ~HasFilter(k, "ratelimit")
                /\ NoTrigger(k, {proxyBodySizeAnnotation}) =>
                      /\ nginxIR.ProxyBodySize = <<>>
                      /\ ~HasFilter(k, "bodysize")
                /\ NoTrigger(k, {proxyBufferingAnnotation, proxyRequestBufferingAnnotation}) =>
                      /\ nginxIR.ProxyBuffering = <<>>
                      /\ nginxIR.ProxyRequestBuffering = <<>>
                      /\ ~HasFilter(k, "nobuffer")
                /\ NoTrigger(k, {sslRedirectAnnotation, forceSSLRedirectAnnotation}) =>
                      /\ ~nginxIR.SSLRedirect
                      /\ ~HasRedirectRoute(k)

----------------------------------------------------------------------------
(* Timeout pass *)

proxyConnectTimeoutAnnotation == "nginx.ingress.kubernetes.io/proxy-connect-timeout"
proxyReadTimeoutAnnotation == "nginx.ingress.kubernetes.io/proxy-read-timeout"
proxySendTimeoutAnnotation == "nginx.ingress.kubernetes.io/proxy-send-timeout"

DigitChar(d) ==
    CASE d = 0 -> "0" [] d = 1 -> "1" [] d = 2 -> "2" [] d = 3 -> "3"
      [] d = 4 -> "4" [] d = 5 -> "5" [] d = 6 -> "6" [] d = 7 -> "7"
      [] d = 8 -> "8" [] d = 9 -> "9"

\* fmt.Sprintf("%d", n): the decimal digits of n, with a sign when negative.
RECURSIVE FormatNat(_)
FormatNat(n) ==
    IF n < 10 THEN DigitChar(n) ELSE FormatNat(n \div 10) \o DigitChar(n % 10)

FormatInt(n) == IF n < 0 THEN "-" \o FormatNat(-n) ELSE FormatNat(n)

\* gatewayv1.Duration(fmt.Sprintf("%ds", seconds))
Duration(seconds) == FormatInt(seconds) \o "s"

\* A parser that takes a non-numeric value for an unset one.
parseTimeoutConfig_SilentDefault(ingress) ==
    LET value(key) == LET v == AnnChars(ingress.Annotations, key)
                      IN  IF v = <<>> \/ Atoi(v).err THEN 0 ELSE Atoi(v).val
        set(key) == LET v == AnnChars(ingress.Annotations, key)
                    IN  v # <<>> /\ ~Atoi(v).err
    IN  IF \E key \in {proxyConnectTimeoutAnnotation, proxyReadTimeoutAnnotation,
                       proxySendTimeoutAnnotation} : set(key)
        THEN [err |-> <<>>,
              config |-> <<[connectTimeout |-> value(proxyConnectTimeoutAnnotation),
                            readTimeout |-> value(proxyReadTimeoutAnnotation),
                            sendTimeout |-> value(proxySendTimeoutAnnotation)]>>]
        ELSE [err |-> <<>>, config |-> <<>>]

\* parseTimeoutConfig: [err, config], both optional. err names the first
\* annotation (connect, read, send) whose value is not an integer; config is
\* nil when no timeout annotation is set.
parseTimeoutConfig(ingress) ==
    LET connect == AnnChars(ingress.Annotations, proxyConnectTimeoutAnnotation)
        read == AnnChars(ingress.Annotations, proxyReadTimeoutAnnotation)
        send == AnnChars(ingress.Annotations, proxySendTimeoutAnnotation)
        value(v) == IF v = <<>> THEN 0 ELSE Atoi(v).val
    IN  IF connect # <<>> /\ Atoi(connect).err
        THEN [err |-> <<"invalid proxy-connect-timeout">>, config |-> <<>>]
        ELSE IF read # <<>> /\ Atoi(read).err
        THEN [err |-> <<"invalid proxy-read-timeout">>, config |-> <<>>]
        ELSE IF send # <<>> /\ Atoi(send).err
        THEN [err |-> <<"invalid proxy-send-timeout">>, config |-> <<>>]
        ELSE IF connect = <<>> /\ read = <<>> /\ send = <<>>
        THEN [err |-> <<>>, config |-> <<>>]
        ELSE [err |-> <<>>,
              config |-> <<[connectTimeout |-> value(connect),
                            readTimeout |-> value(read),
                            sendTimeout |-> value(send)]>>]

\* The first loop of timeoutFeature: the errors of the Ingresses that do not
\* parse, in list order.
RECURSIVE TimeoutErrors(_)
TimeoutErrors(ings) ==
    IF ings = <<>> THEN <<>>
    ELSE LET parsed == parseTimeoutConfig(Head(ings))
         IN  (IF parsed.err # <<>>
              THEN <<FieldError(<<"ingress", Head(ings).Namespace, Head(ings).Name,
                                  "metadata", "annotations">>, Head(ings).Annotations)>>
              ELSE <<>>) \o TimeoutErrors(Tail(ings))

\* The first loop of timeoutFeature: ingressTimeouts, the configuration of
\* every Ingress that parses and has one, by the Ingress's key.
IngressTimeouts(ings) ==
    LET have == {i \in 1..Len(ings) : /\ parseTimeoutConfig(ings[i]).err = <<>>
                                      /\ parseTimeoutConfig(ings[i]).config # <<>>}
    IN  [k \in {IngressKey(ings[i]) : i \in have} |->
            parseTimeoutConfig(ings[Max({i \in have : IngressKey(ings[i]) = k})]).config[1]]

\* The configuration timeoutFeature picks for a host: that of the first Ingress
\* of the list that has one and matches the host (optional).
TimeoutConfigFor(ings, ingressTimeouts, host) ==
    LET is == {i \in 1..Len(ings) : /\ IngressKey(ings[i]) \in DOMAIN ingressTimeouts
                                    /\ matchesRoute(ings[i], host)}
    IN  IF is = {} THEN <<>> ELSE <<ingressTimeouts[IngressKey(ings[Min(is)])]>>

\* The body of the loop over a route's rules.
ApplyTimeouts(rule, timeoutCfg) ==
    LET requestTimeout == IF timeoutCfg.sendTimeout > timeoutCfg.readTimeout
                          THEN timeoutCfg.sendTimeout ELSE timeoutCfg.readTimeout
        r1 == IF requestTimeout > 0
              THEN [rule EXCEPT !.Request = <<Duration(requestTimeout)>>] ELSE rule
    IN  IF timeoutCfg.connectTimeout > 0
        THEN [r1 EXCEPT !.BackendRequest = <<Duration(timeoutCfg.connectTimeout)>>]
        ELSE r1

\* timeoutFeature: the resulting [routes, errs, notes].
timeoutFeature(ings, st) ==
    LET errList == st.errs \o TimeoutErrors(ings)
        ingressTimeouts == IngressTimeouts(ings)
        keyOf(rg) == NamespacedName(rg.Namespace, RouteName(rg.Name, rg.Host))
        groups == {rg \in GetRuleGroups(ings) :
                      /\ keyOf(rg) \in DOMAIN st.routes
                      /\ TimeoutConfigFor(ings, ingressTimeouts, rg.Host) # <<>>}
        cfgOf(k) == TimeoutConfigFor(ings, ingressTimeouts,
                                     (CHOOSE rg \in groups : keyOf(rg) = k).Host)[1]
        applied == {keyOf(rg) : rg \in groups}
    IN  IF DOMAIN ingressTimeouts = {} THEN [st EXCEPT !.errs = errList]
        ELSE [routes |-> [k \in DOMAIN st.routes |->
                            IF k \in applied
                            THEN [st.routes[k] EXCEPT
                                    !.HTTPRoute.Rules =
                                        [j \in 1..Len(st.routes[k].HTTPRoute.Rules) |->
                                            ApplyTimeouts(st.routes[k].HTTPRoute.Rules[j],
                                                          cfgOf(k))]]
                            ELSE st.routes[k]],
              errs |-> errList,
              notes |-> st.notes (+) SetToBag({Notification(InfoNotification, "timeout", k) :
                                                  k \in applied})]

----------------------------------------------------------------------------
(* Specification of the timeout pass: a list of Ingresses with timeout      *)
(* annotations, each with two paths under one host.                         *)

Chars7200 == <<"7", "2", "0", "0">>
Chars60 == <<"6", "0">>
Chars30 == <<"3", "0">>
Chars5 == <<"5">>
Chars9 == <<"9">>
Chars0 == <<"0">>
CharsABC == <<"a", "b", "c">>

\* The annotation sets of the timeout pass. The values that accompany a
\* non-numeric one (9) occur in no annotation set that parses.
TimeoutAnnotations ==
    {EmptyMap,
     (proxyReadTimeoutAnnotation :> Chars7200),
     (proxyReadTimeoutAnnotation :> Chars30) @@ (proxySendTimeoutAnnotation :> Chars60)
        @@ (proxyConnectTimeoutAnnotation :> Chars5),
     (proxyReadTimeoutAnnotation :> Chars60) @@ (proxySendTimeoutAnnotation :> Chars30),
     (proxyConnectTimeoutAnnotation :> Chars5) @@ (proxyReadTimeoutAnnotation :> Chars0),
     (proxyConnectTimeoutAnnotation :> Chars9) @@ (proxyReadTimeoutAnnotation :> CharsABC),
     (proxyReadTimeoutAnnotation :> Chars9) @@ (proxySendTimeoutAnnotation :> CharsABC)}

TimeoutIngressLists(n) ==
    {[i \in 1..n |-> Ingress(f[i][1], IngressNames[i], f[i][3],
                             <<IngressRule(f[i][2], "svc", 80),
                               IngressRule(f[i][2], "api", 80)>>, <<>>)] :
        f \in [1..n -> Namespaces \X Hosts \X TimeoutAnnotations]}

InitTimeout ==
    \E n \in 1..MaxIngresses : \E ings \in TimeoutIngressLists(n) :
        Start(ings, DefaultGatewayConfig, {"timeout"})

TimeoutFeature ==
    /\ RunPass("timeout")
    /\ ApplyPass(timeoutFeature(ingresses, PassState))
    /\ UNCHANGED <<ingresses, gatewayConfig, gatewayResources>>

NextTimeout == TimeoutFeature

SpecTimeout == InitTimeout /\ [][NextTimeout]_vars

\* The Ingress parses and carries a timeout configuration.
CarriesTimeouts(i) ==
    /\ parseTimeoutConfig(ingresses[i]).err = <<>>
    /\ parseTimeoutConfig(ingresses[i]).config # <<>>

TimeoutsOf(i) == parseTimeoutConfig(ingresses[i]).config[1]

RequestSeconds(cfg) == Max({cfg.readTimeout, cfg.sendTimeout})

\* The rule carries the timeouts the configuration asks for.
RuleHasTimeouts(rule, cfg) ==
    /\ RequestSeconds(cfg) > 0 => rule.Request = <<Duration(RequestSeconds(cfg))>>
    /\ cfg.connectTimeout > 0 => rule.BackendRequest = <<Duration(cfg.connectTimeout)>>

\* C11: once the timeout pass has run, for an Ingress with valid timeout
\* annotations that contributes to a route (and is the only contributor of the
\* route with timeout annotations, so that no two Ingresses compete for it),
\* every rule of the route has Request = "<max(read, send)>s" when the maximum
\* is positive and BackendRequest = "<connect>s" when connect is positive.
C11_TimeoutsOfContributor ==
    pc = "ir" =>
        \A k \in DOMAIN ir.HTTPRoutes : \A i \in Contributors(k) :
            (/\ CarriesTimeouts(i)
             /\ \A j \in Contributors(k) \ {i} : ~CarriesTimeouts(j))
            => \A r \in 1..Len(ir.HTTPRoutes[k].HTTPRoute.Rules) :
                   RuleHasTimeouts(ir.HTTPRoutes[k].HTTPRoute.Rules[r], TimeoutsOf(i))

TimeoutAnnotationKeys ==
    {proxyConnectTimeoutAnnotation, proxyReadTimeoutAnnotation, proxySendTimeoutAnnotation}

\* One of the Ingress's timeout annotations is set to a value that is not an
\* integer.
NonNumericTimeout(i) ==
    \E key \in TimeoutAnnotationKeys :
        LET v == AnnChars(ingresses[i].Annotations, key)
        IN  v # <<>> /\ Atoi(v).err

ErrorsAbout(i) ==
    {n \in 1..Len(errs) :
        errs[n].Field = <<"ingress", ingresses[i].Namespace, ingresses[i].Name,
                          "metadata", "annotations">>}

\* The Ingresses a rule's timeouts can come from: those without a non-numeric
\* value whose configuration, applied to a bare rule, gives the rule.
TimeoutSources(rule) ==
    {j \in 1..Len(ingresses) :
        /\ ~NonNumericTimeout(j)
        /\ CarriesTimeouts(j)
        /\ rule = ApplyTimeouts(HTTPRouteRule(<<>>), TimeoutsOf(j))}

\* The first Ingress of the list that parses, carries timeouts and has the host.
FirstWithTimeouts(i, host) ==
    /\ CarriesTimeouts(i)
    /\ matchesRoute(ingresses[i], host)
    /\ \A j \in 1..(i - 1) : ~(CarriesTimeouts(j) /\ matchesRoute(ingresses[j], host))

\* C12: an Ingress with a non-numeric timeout annotation makes
\* parseTimeoutConfig return an error and no configuration; once the pass has
\* run the error list has an entry for that Ingress, every timeout on every
\* rule comes from an Ingress without a non-numeric value (none from the
\* failing Ingress's other annotations, no default), and the other Ingresses
\* are still processed: the first Ingress with timeouts for a host has them on
\* the routes it contributes to.
C12_NonNumericTimeoutIsError ==
    /\ \A i \in 1..Len(ingresses) :
          NonNumericTimeout(i) =>
              /\ parseTimeoutConfig(ingresses[i]).err # <<>>
              /\ parseTimeoutConfig(ingresses[i]).config = <<>>
              /\ pc = "ir" => Cardinality(ErrorsAbout(i)) = 1
    /\ pc = "ir" =>
          /\ Len(errs) = Cardinality({i \in 1..Len(ingresses) : NonNumericTimeout(i)})
          /\ \A k \in DOMAIN ir.HTTPRoutes :
                \A r \in 1..Len(ir.HTTPRoutes[k].HTTPRoute.Rules) :
                    LET rule == ir.HTTPRoutes[k].HTTPRoute.Rules[r]
                    IN  /\ rule # HTTPRouteRule(<<>>) => TimeoutSources(rule) # {}
                        /\ \A i \in Contributors(k) :
                              FirstWithTimeouts(i, ir.HTTPRoutes[k].HTTPRoute.Hostnames[1])
                              => RuleHasTimeouts(rule, TimeoutsOf(i))

\* The first Ingress has a non-numeric timeout and a numeric one; the second,
\* for the same route, has valid timeouts, which the route carries.
C12_Witness ==
    /\ pc = "ir"
    /\ Len(ingresses) = 2
    /\ NonNumericTimeout(1)
    /\ proxyConnectTimeoutAnnotation \in DOMAIN ingresses[1].Annotations
    /\ CarriesTimeouts(2)
    /\ Len(errs) = 1
    /\ \E k \in DOMAIN ir.HTTPRoutes :
          /\ Contributors(k) = {1, 2}
          /\ ir.HTTPRoutes[k].HTTPRoute.Rules[2].Request = <<"60s">>
          /\ ir.HTTPRoutes[k].HTTPRoute.Rules[2].BackendRequest = <<"5s">>

----------------------------------------------------------------------------
(* Specification of the backend-protocol pass over every kind of trigger:   *)
(* each backend protocol, with and without proxy-ssl-secret and             *)
(* proxy-ssl-name.                                                          *)

TriggerAnnotations ==
    {EmptyMap,
     (backendProtocolAnnotation :> "HTTP"),
     (backendProtocolAnnotation :> "GRPC"),
     (backendProtocolAnnotation :> "HTTPS"),
     (backendProtocolAnnotation :> "GRPCS") @@ (proxySSLNameAnnotation :> "sni"),
     (backendProtocolAnnotation :> "HTTP") @@ (proxySSLSecretAnnotation :> "a/s"),
     (proxySSLSecretAnnotation :> "a/s") @@ (proxySSLNameAnnotation :> "sni"),
     (backendProtocolAnnotation :> "https"),
     (proxySSLNameAnnotation :> "sni") @@ (proxySSLVerifyAnnotation :> "on")}

TriggerBackends ==
    {[Rules |-> <<IngressRule(HostX, "svc1", 80)>>, DefaultBackend |-> <<>>],
     [Rules |-> <<IngressRule(HostX, "svc2", 80)>>,
      DefaultBackend |-> <<ServiceBackend("svc1", 80)>>]}

TriggerIngressLists(n) ==
    {[i \in 1..n |-> Ingress(f[i][1], IngressNames[i], f[i][2],
                             f[i][3].Rules, f[i][3].DefaultBackend)] :
        f \in [1..n -> Namespaces \X TriggerAnnotations \X TriggerBackends]}

InitTriggers ==
    \E n \in 1..MaxIngresses : \E ings \in TriggerIngressLists(n) :
        Start(ings, DefaultGatewayConfig, {"backend-protocol"})

NextTriggers == BackendProtocolFeature

SpecTriggers == InitTriggers /\ [][NextTriggers]_vars

\* The policies whose creation the pass reported for the Ingress.
CreatedFor(i) ==
    {k \in DOMAIN ir.BackendTLSPolicies :
        Notification(InfoNotification,
                     "created BackendTLSPolicy " \o k.Namespace \o "/" \o k.Name,
                     IngressKey(ingresses[i])) \in BagToSet(notifications)}

BackendServices(i) ==
    {b.Service : b \in Range(ingresses[i].Rules) \cup Range(ingresses[i].DefaultBackend)}

\* C13: parseBackendTLSConfig returns a config exactly when backend-protocol is
\* HTTPS or GRPCS or proxy-ssl-secret is non-empty. Once the pass has run,
\* every backend of such an Ingress has its BackendTLSPolicy, no policy was
\* created for an Ingress without a trigger, and the only policies are those
\* of services that an Ingress with a trigger references.
C13_BackendTLSOnlyOnTrigger ==
    /\ \A i \in 1..Len(ingresses) :
          parseBackendTLSConfig(ingresses[i]) # <<>> <=> TLSEnabled(ingresses[i])
    /\ pc = "ir" =>
          /\ \A i \in 1..Len(ingresses) :
                IF TLSEnabled(ingresses[i])
                THEN \A svc \in BackendServices(i) :
                        NamespacedName(ingresses[i].Namespace, svc \o "-backend-tls")
                            \in DOMAIN ir.BackendTLSPolicies
                ELSE CreatedFor(i) = {}
          /\ \A k \in DOMAIN ir.BackendTLSPolicies :
                \E i \in 1..Len(ingresses) :
                    /\ TLSEnabled(ingresses[i])
                    /\ k \in CreatedFor(i)
                    /\ k.Namespace = ingresses[i].Namespace
                    /\ ir.BackendTLSPolicies[k].TargetService \in BackendServices(i)

\* An Ingress whose only trigger is proxy-ssl-secret (backend-protocol HTTP)
\* has its policies, and an Ingress with backend-protocol GRPC has none.
C13_Witness ==
    /\ pc = "ir"
    /\ Len(ingresses) = 2
    /\ AnnStr(ingresses[1].Annotations, backendProtocolAnnotation) = "HTTP"
    /\ AnnStr(ingresses[1].Annotations, proxySSLSecretAnnotation) # ""
    /\ AnnStr(ingresses[2].Annotations, backendProtocolAnnotation) = "GRPC"
    /\ ingresses[1].Namespace # ingresses[2].Namespace
    /\ Cardinality(CreatedFor(1)) = 2
    /\ DOMAIN ir.BackendTLSPolicies = CreatedFor(1)

\* C14: every BackendTLSPolicy the pass built has exactly one validation
\* source: a CA certificate reference if and only if the proxy-ssl-secret of
\* the Ingress it was built for is non-empty, the well-known System
\* certificates if and only if it is empty; its validation hostname is that
\* Ingress's proxy-ssl-name when given and the service name otherwise.
C14_OneValidationSource ==
    pc = "ir" =>
        \A k \in DOMAIN ir.BackendTLSPolicies :
            LET policy == ir.BackendTLSPolicies[k]
                creators == {i \in 1..Len(ingresses) : k \in CreatedFor(i)}
            IN  /\ Cardinality(creators) = 1
                /\ (policy.CACertificateRefs # <<>>) # (policy.WellKnownCACertificates # <<>>)
                /\ \A i \in creators :
                      LET secret == AnnStr(ingresses[i].Annotations, proxySSLSecretAnnotation)
                          sni == AnnStr(ingresses[i].Annotations, proxySSLNameAnnotation)
                      IN  /\ policy.CACertificateRefs # <<>> <=> secret # ""
                          /\ policy.WellKnownCACertificates = <<"System">> <=> secret = ""
                          /\ policy.WellKnownCACertificates \in {<<>>, <<"System">>}
                          /\ policy.Hostname = IF sni # "" THEN sni ELSE policy.TargetService

\* Namespace a has a policy with a CA reference and the hostname of
\* proxy-ssl-name, namespace b one with the system certificates and the
\* service name as hostname.
C14_Witness ==
    /\ pc = "ir"
    /\ \E k \in DOMAIN ir.BackendTLSPolicies :
          /\ k.Namespace = "a"
          /\ ir.BackendTLSPolicies[k].CACertificateRefs # <<>>
          /\ ir.BackendTLSPolicies[k].WellKnownCACertificates = <<>>
          /\ ir.BackendTLSPolicies[k].Hostname = "sni"
    /\ \E k \in DOMAIN ir.BackendTLSPolicies :
          /\ k.Namespace = "b"
          /\ ir.BackendTLSPolicies[k].CACertificateRefs = <<>>
          /\ ir.BackendTLSPolicies[k].WellKnownCACertificates = <<"System">>
          /\ ir.BackendTLSPolicies[k].Hostname = ir.BackendTLSPolicies[k].TargetService

----------------------------------------------------------------------------
(* Claims about the output of Provider.ToGatewayResources (checked under    *)
(* SpecIR)                                                                  *)

\* C15: when Provider.ToGatewayResources has returned, for every route whose
\* IR carries a rate limit (RateLimitRPS > 0), a body size, proxy-buffering off
\* or an external-auth URL, GatewayExtensions holds the EnvoyFilter of that
\* concern for the route.
C15_EnvoyFiltersGenerated ==
    pc = "done" =>
        \A k \in DOMAIN ir.HTTPRoutes :
            LET nginxIR == NginxOf(ir.HTTPRoutes[k])
            IN  /\ nginxIR.RateLimitRPS > 0 => HasFilter(k, "ratelimit")
                /\ nginxIR.ProxyBodySize # <<>> => HasFilter(k, "bodysize")
                /\ nginxIR.ProxyBuffering = <<FALSE>> => HasFilter(k, "nobuffer")
                /\ (nginxIR.ExternalAuth # <<>> /\ nginxIR.ExternalAuth[1].URL # "")
                      => HasFilter(k, "extauthz")

----------------------------------------------------------------------------
(* External-auth pass *)

authMethodAnnotation == "nginx.ingress.kubernetes.io/auth-method"
authSigninAnnotation == "nginx.ingress.kubernetes.io/auth-signin"
authResponseHeadersAnnotation == "nginx.ingress.kubernetes.io/auth-response-headers"
authRequestRedirectAnnotation == "nginx.ingress.kubernetes.io/auth-request-redirect"
authCacheKeyAnnotation == "nginx.ingress.kubernetes.io/auth-cache-key"
authCacheDurationAnnotation == "nginx.ingress.kubernetes.io/auth-cache-duration"
authSnippetAnnotation == "nginx.ingress.kubernetes.io/auth-snippet"

\* strings.Split on a sequence of characters.
RECURSIVE Split(_, _)
Split(value, sep) ==
    LET is == {i \in 1..Len(value) : value[i] = sep}
    IN  IF is = {} THEN <<value>>
        ELSE <<SubSeq(value, 1, Min(is) - 1)>>
             \o Split(SubSeq(value, Min(is) + 1, Len(value)), sep)

\* parseExternalAuthConfig: <<>> for nil, else the one-element config.
parseExternalAuthConfig(ing) ==
    LET ann == ing.Annotations
        authURL == AnnStr(ann, authURLAnnotation)
        method == IF AnnStr(ann, authMethodAnnotation) = "" THEN "GET"
                  ELSE AnnStr(ann, authMethodAnnotation)
        headers == AnnChars(ann, authResponseHeadersAnnotation)
        headerList == Split(headers, ",")
    IN  IF authURL = "" THEN <<>>
        ELSE <<[URL |-> authURL,
                Method |-> ToUpper(method),
                SigninURL |-> AnnStr(ann, authSigninAnnotation),
                ResponseHeaders |-> IF headers = <<>> THEN <<>>
                                    ELSE [i \in 1..Len(headerList) |-> TrimSpace(headerList[i])],
                RequestRedirect |-> AnnStr(ann, authRequestRedirectAnnotation),
                CacheKey |-> AnnStr(ann, authCacheKeyAnnotation),
                CacheDuration |-> AnnStr(ann, authCacheDurationAnnotation)]>>

\* The notification parseExternalAuthConfig emits about an auth-snippet.
ExternalAuthNotes(ing, notes) ==
    IF /\ AnnStr(ing.Annotations, authURLAnnotation) # ""
       /\ AnnStr(ing.Annotations, authSnippetAnnotation) # ""
    THEN Notify(notes, WarningNotification, "auth-snippet", IngressKey(ing))
    ELSE notes

\* One iteration of externalAuthFeature's loop: the possible states [routes,
\* errs, notes] after the Ingress is processed.
ExternalAuthStep(ing, st) ==
    LET config == parseExternalAuthConfig(ing)
        st1 == [st EXCEPT !.notes = ExternalAuthNotes(ing, st.notes)]
    IN  IF config = <<>> THEN {st1}
        ELSE {IF routeKey = ZeroKey THEN st1
              ELSE [st1 EXCEPT
                      !.routes = Put(st.routes, routeKey,
                                     [st.routes[routeKey] EXCEPT
                                        !.IngressNginx = <<[NginxOf(st.routes[routeKey]) EXCEPT
                                                              !.ExternalAuth = config]>>]),
                      !.notes = Notify(st1.notes, InfoNotification, "external-auth",
                                       IngressKey(ing))] :
                routeKey \in findHTTPRouteKey(st.routes, IngressKey(ing))}

RECURSIVE externalAuthFeature(_, _)
externalAuthFeature(ings, st) ==
    IF ings = <<>> THEN {st}
    ELSE UNION {externalAuthFeature(Tail(ings), s1) : s1 \in ExternalAuthStep(Head(ings), st)}

----------------------------------------------------------------------------
(* Client-certificate pass *)

authTLSVerifyClientAnnotation == "nginx.ingress.kubernetes.io/auth-tls-verify-client"
authTLSVerifyDepthAnnotation == "nginx.ingress.kubernetes.io/auth-tls-verify-depth"
authTLSErrorPageAnnotation == "nginx.ingress.kubernetes.io/auth-tls-error-page"
authTLSPassCertToUpstreamAnnotation ==
    "nginx.ingress.kubernetes.io/auth-tls-pass-certificate-to-upstream"

\* parseClientCertAuthConfig: [config, errs]; config is <<>> for nil. With a
\* secret the config is returned even when errs is not empty: an invalid
\* verify-client falls back to "on", an invalid verify-depth leaves 0.
parseClientCertAuthConfig(ing) ==
    LET ann == ing.Annotations
        secret == AnnStr(ann, authTLSSecretAnnotation)
        verifyClient == IF AnnStr(ann, authTLSVerifyClientAnnotation) = "" THEN "on"
                        ELSE AnnStr(ann, authTLSVerifyClientAnnotation)
        validVerify == verifyClient \in {"on", "off", "optional", "optional_no_ca"}
        depth == AnnChars(ann, authTLSVerifyDepthAnnotation)
        validDepth == depth = <<>> \/ ~Atoi(depth).err
    IN  IF secret = "" THEN [config |-> <<>>, errs |-> <<>>]
        ELSE [config |->
                <<[Secret |-> secret,
                   VerifyClient |-> IF validVerify THEN verifyClient ELSE "on",
                   VerifyDepth |-> IF depth = <<>> THEN 1
                                   ELSE IF Atoi(depth).err THEN 0 ELSE Atoi(depth).val,
                   ErrorPage |-> AnnStr(ann, authTLSErrorPageAnnotation),
                   PassCertToUpstream |->
                       AnnStr(ann, authTLSPassCertToUpstreamAnnotation) = "true"]>>,
              errs |->
                (IF validVerify THEN <<>>
                 ELSE <<FieldError(authTLSVerifyClientAnnotation, verifyClient)>>)
                \o (IF validDepth THEN <<>>
                    ELSE <<FieldError(authTLSVerifyDepthAnnotation, depth)>>)]

\* One iteration of clientCertAuthFeature's loop.
ClientCertAuthStep(ing, st) ==
    LET parsed == parseClientCertAuthConfig(ing)
    IN  IF Len(parsed.errs) > 0 THEN {[st EXCEPT !.errs = st.errs \o parsed.errs]}
        ELSE IF parsed.config = <<>> THEN {st}
        ELSE {IF routeKey = ZeroKey THEN st
              ELSE [st EXCEPT
                      !.routes = Put(st.routes, routeKey,
                                     [st.routes[routeKey] EXCEPT
                                        !.IngressNginx = <<[NginxOf(st.routes[routeKey]) EXCEPT
                                                              !.ClientCertAuth = parsed.config]>>]),
                      !.notes = Notify(st.notes, InfoNotification, "client-cert-auth",
                                       IngressKey(ing))] :
                routeKey \in findHTTPRouteKey(st.routes, IngressKey(ing))}

RECURSIVE clientCertAuthFeature(_, _)
clientCertAuthFeature(ings, st) ==
    IF ings = <<>> THEN {st}
    ELSE UNION {clientCertAuthFeature(Tail(ings), s1) : s1 \in ClientCertAuthStep(Head(ings), st)}

----------------------------------------------------------------------------
(* Specification of the authentication passes: the external-auth and        *)
(* client-certificate passes in any order, then Provider.ToGatewayResources *)
(* step by step, in centralized and per-namespace mode.                     *)

AuthAnnotations ==
    {EmptyMap,
     (authURLAnnotation :> "https://auth.example"),
     (authTLSSecretAnnotation :> "a/ca"),
     (authURLAnnotation :> "https://auth.example") @@ (authMethodAnnotation :> "post")
        @@ (authResponseHeadersAnnotation :> <<"X", ",", " ", "Y">>)
        @@ (authSnippetAnnotation :> "snippet")
        @@ (authTLSSecretAnnotation :> "a/ca") @@ (authTLSVerifyClientAnnotation :> "optional"),
     (authTLSSecretAnnotation :> "a/ca") @@ (authTLSVerifyClientAnnotation :> "never")}

AuthGatewayConfigs ==
    {[Mode |-> "centralized", Namespace |-> DefaultGatewayNamespace, Name |-> DefaultGatewayName],
     [Mode |-> "per-namespace", Namespace |-> DefaultGatewayNamespace, Name |-> DefaultGatewayName]}

AuthIngressLists(n) ==
    {[i \in 1..n |-> Ingress(f[i][1], IngressNames[i], f[i][3],
                             <<IngressRule(f[i][2], "svc", 80)>>, <<>>)] :
        f \in [1..n -> Namespaces \X Hosts \X AuthAnnotations]}

InitAuth ==
    \E n \in 1..MaxIngresses : \E ings \in AuthIngressLists(n) : \E cfg \in AuthGatewayConfigs :
        Start(ings, cfg, {"external-auth", "client-cert-auth"})

ExternalAuthFeature ==
    /\ RunPass("external-auth")
    /\ \E st \in externalAuthFeature(ingresses, PassState) : ApplyPass(st)
    /\ UNCHANGED <<ingresses, gatewayConfig, gatewayResources>>

ClientCertAuthFeature ==
    /\ RunPass("client-cert-auth")
    /\ \E st \in clientCertAuthFeature(ingresses, PassState) : ApplyPass(st)
    /\ UNCHANGED <<ingresses, gatewayConfig, gatewayResources>>

NextAuth ==
    \/ ExternalAuthFeature
    \/ ClientCertAuthFeature
    \/ ToGatewayResources_Common
    \/ TransformGatewaysForMode
    \/ BuildSSLRedirectRoutes
    \/ BuildCrossNamespaceReferenceGrants
    \/ EmitCentralizedModeWarnings

SpecAuth == InitAuth /\ [][NextAuth]_vars

\* The number of WARNING notifications of a kind about a route.
CentralizedWarnings(about, k) ==
    LET n == Notification(WarningNotification, about, k)
    IN  IF n \in BagToSet(notifications) THEN notifications[n] ELSE 0

CentralizedAbouts == {"centralized-auth-url", "centralized-auth-tls-secret"}

\* C16: when Provider.ToGatewayResources has returned in centralized mode,
\* there is one WARNING about every route whose IR carries an external-auth
\* record with a URL, one about every route whose IR carries a client-cert
\* record with a secret, and none about any other route; in per-namespace
\* mode, and before ToGatewayResources emits them, there is no such warning.
C16_CentralizedModeWarnings ==
    LET authURL(k) == /\ NginxOf(ir.HTTPRoutes[k]).ExternalAuth # <<>>
                      /\ NginxOf(ir.HTTPRoutes[k]).ExternalAuth[1].URL # ""
        authTLS(k) == /\ NginxOf(ir.HTTPRoutes[k]).ClientCertAuth # <<>>
                      /\ NginxOf(ir.HTTPRoutes[k]).ClientCertAuth[1].Secret # ""
    IN  IF pc = "done" /\ gatewayConfig.Mode = "centralized"
        THEN /\ \A k \in DOMAIN ir.HTTPRoutes :
                   /\ CentralizedWarnings("centralized-auth-url", k) = IF authURL(k) THEN 1 ELSE 0
                   /\ CentralizedWarnings("centralized-auth-tls-secret", k)
                         = IF authTLS(k) THEN 1 ELSE 0
             /\ \A n \in BagToSet(notifications) :
                   n.About \in CentralizedAbouts => n.Object \in DOMAIN ir.HTTPRoutes
        ELSE \A n \in BagToSet(notifications) : n.About \notin CentralizedAbouts

\* Centralized mode, two routes: one carries both records and has both
\* warnings, the other carries none and has no warning.
C16_Witness ==
    /\ pc = "done"
    /\ gatewayConfig.Mode = "centralized"
    /\ \E k1, k2 \in DOMAIN ir.HTTPRoutes :
          /\ k1 # k2
          /\ NginxOf(ir.HTTPRoutes[k1]).ExternalAuth # <<>>
          /\ NginxOf(ir.HTTPRoutes[k1]).ClientCertAuth # <<>>
          /\ CentralizedWarnings("centralized-auth-url", k1) = 1
          /\ CentralizedWarnings("centralized-auth-tls-secret", k1) = 1
          /\ ir.HTTPRoutes[k2].IngressNginx = <<>>
          /\ CentralizedWarnings("centralized-auth-url", k2) = 0

----------------------------------------------------------------------------
(* Determinism (checked under SpecIR). Every operator that ranges over a Go *)
(* map returns the set of results the iteration orders can produce; a step  *)
(* is deterministic when that set has one element.                          *)

ProxyPassState == [routes |-> ir.HTTPRoutes, services |-> ir.Services, notes |-> notifications]

\* C17: every step of a conversion run has one outcome whatever order the maps
\* are iterated in: a feature pass that runs could not have produced another
\* IR, error list or set of notifications (so each Ingress's settings land on
\* one route), the gateway transform could not have produced other Gateways or
\* parentRefs, nor the redirect-route builder other routes.
C17_Deterministic ==
    [][/\ RateLimitFeature
            => Cardinality(rateLimitFeature(ingresses, PassState)) = 1
       /\ ProxySettingsFeature
            => Cardinality(proxySettingsFeature(ingresses, ProxyPassState)) = 1
       /\ TransformGatewaysForMode
            => Cardinality(transformGatewaysForMode(gatewayResources, gatewayConfig)) = 1
       /\ BuildSSLRedirectRoutes
            => Cardinality(buildSSLRedirectRoutes(ir.HTTPRoutes, gatewayResources.HTTPRoutes,
                                                  gatewayConfig)) = 1]_vars

----------------------------------------------------------------------------
(* Specification of updateHTTPRouteParentRefs: two routes with up to two    *)
(* parentRefs each (nil or explicit namespace, the generated Gateway's name *)
(* or another), one generated Gateway (the old key) and the configured      *)
(* central Gateway (the new key); the step is one iteration of the          *)
(* centralized branch's loop over the generated Gateways.                   *)

RefChoices ==
    {ParentReference(ns, name, <<>>) : ns \in {<<>>, <<"a">>, <<"b">>},
                                       name \in {IngressClass, "other"}}

RefSeqs == {<<>>} \cup {<<r>> : r \in RefChoices} \cup {<<r, q>> : r, q \in RefChoices}

RefRouteKeys == {NamespacedName("a", "r1"), NamespacedName("b", "r2")}

\* The central Gateway of the configuration: the default one, or one that has
\* the namespace and name of the Gateway generated for namespace a.
RefGatewayConfigs ==
    {[Mode |-> "centralized", Namespace |-> DefaultGatewayNamespace, Name |-> DefaultGatewayName],
     [Mode |-> "centralized", Namespace |-> "a", Name |-> IngressClass]}

InitRefs ==
    \E refs \in [RefRouteKeys -> RefSeqs] : \E ns \in Namespaces : \E cfg \in RefGatewayConfigs :
        /\ ingresses = <<>>
        /\ pending = {}
        /\ gatewayConfig = cfg
        /\ ir = [HTTPRoutes |-> [k \in RefRouteKeys |->
                                    RouteContext(HTTPRoute(k.Namespace, k.Name, "", refs[k],
                                                           <<HostX>>, <<HTTPRouteRule(<<>>)>>))],
                 Gateways |-> (NamespacedName(ns, IngressClass) :>
                                  [Namespace |-> ns, Name |-> IngressClass,
                                   GatewayClassName |-> IngressClass,
                                   Listeners |-> <<Listener("x-io-http", HostX, "HTTP")>>]),
                 Services |-> EmptyMap,
                 BackendTLSPolicies |-> EmptyMap]
        /\ gatewayResources = CommonToGatewayResources(ir)
        /\ notifications = EmptyBag
        /\ errs = <<>>
        /\ pc = "common"

UpdateHTTPRouteParentRefs ==
    /\ pc = "common"
    /\ \E oldKey \in DOMAIN gatewayResources.Gateways :
          gatewayResources' =
              [gatewayResources EXCEPT
                 !.HTTPRoutes = updateHTTPRouteParentRefs(gatewayResources.HTTPRoutes, oldKey,
                                    NamespacedName(gatewayConfig.Namespace, gatewayConfig.Name))]
    /\ pc' = "updated"
    /\ UNCHANGED <<pending, ingresses, gatewayConfig, ir, notifications, errs>>

NextRefs == UpdateHTTPRouteParentRefs

SpecRefs == InitRefs /\ [][NextRefs]_vars

OldGateway == CHOOSE k \in DOMAIN gatewayResources.Gateways : TRUE
NewGateway == NamespacedName(gatewayConfig.Namespace, gatewayConfig.Name)

\* The parentRef of the route resolves to the Gateway key, a nil namespace
\* being the route's own.
ResolvesTo(route, ref, key) ==
    /\ (IF ref.Namespace = <<>> THEN route.Namespace ELSE ref.Namespace[1]) = key.Namespace
    /\ ref.Name = key.Name

\* The frame of the rewrite: the same routes with the same fields and the same
\* number of parentRefs; a parentRef that resolved to old names new, with an
\* explicit namespace; any other parentRef is as it was; no error is raised.
RewriteFrame ==
    /\ DOMAIN gatewayResources.HTTPRoutes = DOMAIN ir.HTTPRoutes
    /\ errs = <<>>
    /\ notifications = EmptyBag
    /\ \A k \in DOMAIN ir.HTTPRoutes :
          LET before == ir.HTTPRoutes[k].HTTPRoute
              after == gatewayResources.HTTPRoutes[k]
          IN  /\ [after EXCEPT !.ParentRefs = before.ParentRefs] = before
              /\ Len(after.ParentRefs) = Len(before.ParentRefs)
              /\ \A i \in 1..Len(before.ParentRefs) :
                    IF ResolvesTo(before, before.ParentRefs[i], OldGateway)
                    THEN after.ParentRefs[i] =
                            [before.ParentRefs[i] EXCEPT !.Namespace = <<NewGateway.Namespace>>,
                                                         !.Name = NewGateway.Name]
                    ELSE after.ParentRefs[i] = before.ParentRefs[i]

NoneResolvesToOld ==
    \A k \in DOMAIN gatewayResources.HTTPRoutes :
        \A i \in 1..Len(gatewayResources.HTTPRoutes[k].ParentRefs) :
            ~ResolvesTo(gatewayResources.HTTPRoutes[k],
                        gatewayResources.HTTPRoutes[k].ParentRefs[i], OldGateway)

\* C18 as stated: after updateHTTPRouteParentRefs(old, new) no parentRef of any
\* route resolves to old, every parentRef that matched names new, the others
\* and the routes without a match are unchanged, and no error is raised.
C18_AsStated == pc = "updated" => (RewriteFrame /\ NoneResolvesToOld)

\* C18, amended: after updateHTTPRouteParentRefs(old, new) every parentRef that
\* resolved to old (a nil namespace being the route's own) names new, all of
\* them when a route has several; the others and the routes without a match
\* are unchanged; no error is raised, match or not; and, when new differs from
\* old, no parentRef of any route resolves to old any more.
C18_ExhaustiveRewrite ==
    pc = "updated" => (RewriteFrame /\ (NewGateway # OldGateway => NoneResolvesToOld))

\* Route a/r1 referenced old twice, once with a nil and once with an explicit
\* namespace, and both parentRefs name new; route b/r2 had no match and is
\* unchanged.
C18_Witness ==
    /\ pc = "updated"
    /\ OldGateway = NamespacedName("a", IngressClass)
    /\ NewGateway = NamespacedName(DefaultGatewayNamespace, DefaultGatewayName)
    /\ LET r1 == NamespacedName("a", "r1")
           r2 == NamespacedName("b", "r2")
       IN  /\ ir.HTTPRoutes[r1].HTTPRoute.ParentRefs =
                 <<ParentReference(<<>>, IngressClass, <<>>),
                   ParentReference(<<"a">>, IngressClass, <<>>)>>
           /\ \A i \in 1..2 : ResolvesTo(gatewayResources.HTTPRoutes[r1],
                                         gatewayResources.HTTPRoutes[r1].ParentRefs[i],
                                         NewGateway)
           /\ Len(ir.HTTPRoutes[r2].HTTPRoute.ParentRefs) = 2
           /\ gatewayResources.HTTPRoutes[r2] = ir.HTTPRoutes[r2].HTTPRoute

----------------------------------------------------------------------------
(* Claims about the per-namespace topology and the redirect routes (checked *)
(* under Spec)                                                              *)

\* The generated Gateways that a route of the namespace referenced before the
\* transform: the IR keeps the routes and Gateways as the converter made them.
ReferencedBefore(N) ==
    {g \in DOMAIN ir.Gateways :
        \E k \in DOMAIN ir.HTTPRoutes :
            /\ k.Namespace = N
            /\ \E i \in 1..Len(ir.HTTPRoutes[k].HTTPRoute.ParentRefs) :
                  ParentOf(ir.HTTPRoutes[k].HTTPRoute, i) = g}

\* C19: in per-namespace mode, after the transform the Gateway synthesized for
\* a source namespace N (N-gateway) exists and carries every listener of every
\* generated Gateway that a route of N referenced before the transform.
C19_NoListenerLost ==
    (AfterTransform /\ ~IsCentralized(gatewayConfig)) =>
        \A N \in {k.Namespace : k \in DOMAIN ir.HTTPRoutes} :
            LET own == GetGatewayRef(gatewayConfig, N)
            IN  /\ own \in DOMAIN gatewayResources.Gateways
                /\ ReferencedBefore(N) # {}
                /\ \A g \in ReferencedBefore(N) :
                      Range(ir.Gateways[g].Listeners)
                          \subseteq Range(gatewayResources.Gateways[own].Listeners)

\* Per-namespace mode, namespace a with host x.io and namespace b with host
\* y.io: the generated Gateways have different listeners, and a-gateway
\* carries those of a/nginx.
C19_Witness ==
    /\ AfterTransform
    /\ ~IsCentralized(gatewayConfig)
    /\ Len(ingresses) = 2
    /\ ingresses[1].Namespace = "a" /\ ingresses[2].Namespace = "b"
    /\ ingresses[1].Rules[1].Host = HostX /\ ingresses[2].Rules[1].Host = HostY
    /\ ReferencedBefore("a") = {NamespacedName("a", IngressClass)}
    /\ Listener("x-io-http", HostX, "HTTP")
          \in Range(gatewayResources.Gateways[NamespacedName("a-gateway", "a-gateway")].Listeners)

----------------------------------------------------------------------------
(* Specification of buildSSLRedirectRoutes on an IR whose routes carry      *)
(* zero, one or two hostnames, flagged for SSL redirect or not.             *)

HostnameLists == {<<>>, <<HostX>>, <<HostY>>, <<HostX, HostY>>}

InitRedirects ==
    \E hostnames \in [RefRouteKeys -> HostnameLists] : \E flagged \in SUBSET RefRouteKeys :
    \E cfg \in GatewayConfigs :
        /\ ingresses = <<>>
        /\ pending = {}
        /\ gatewayConfig = cfg
        /\ ir = [HTTPRoutes |->
                    [k \in RefRouteKeys |->
                        [HTTPRoute |-> HTTPRoute(k.Namespace, k.Name, "",
                                                 <<ParentReference(<<>>, IngressClass, <<>>)>>,
                                                 hostnames[k], <<HTTPRouteRule(<<>>)>>),
                         IngressNginx |-> IF k \in flagged
                                          THEN <<[IngressNginxHTTPRouteIR EXCEPT
                                                    !.SSLRedirect = TRUE]>>
                                          ELSE <<>>]],
                 Gateways |-> EmptyMap,
                 Services |-> EmptyMap,
                 BackendTLSPolicies |-> EmptyMap]
        /\ gatewayResources = CommonToGatewayResources(ir)
        /\ notifications = EmptyBag
        /\ errs = <<>>
        /\ pc = "transformed"

NextRedirects == BuildSSLRedirectRoutes

SpecRedirects == InitRedirects /\ [][NextRedirects]_vars

\* The redirect routes generated for a route: those of its namespace (each
\* namespace holds one route here).
RedirectRoutesFor(k) ==
    {x \in DOMAIN gatewayResources.HTTPRoutes :
        /\ gatewayResources.HTTPRoutes[x].Source = RedirectSource
        /\ x.Namespace = k.Namespace}

----------------------------------------------------------------------------
(* Specification of buildSSLRedirectRoutes run twice, on resources in which *)
(* a route may already sit under the redirect key of another route: the     *)
(* converter names a route <ingress>-<host>, so Ingress "r1" with host      *)
(* "redirect" yields the route r1-redirect.                                 *)

ReentryRouteKeys == {NamespacedName("a", "r1"), NamespacedName("a", "r1-redirect")}

InitReentry ==
    \E hostnames \in [ReentryRouteKeys -> HostnameLists] : \E flagged \in SUBSET ReentryRouteKeys :
    \E cfg \in GatewayConfigs :
        /\ ingresses = <<>>
        /\ pending = {}
        /\ gatewayConfig = cfg
        /\ ir = [HTTPRoutes |->
                    [k \in ReentryRouteKeys |->
                        [HTTPRoute |-> HTTPRoute(k.Namespace, k.Name, "",
                                                 <<ParentReference(<<>>, IngressClass, <<>>)>>,
                                                 hostnames[k], <<HTTPRouteRule(<<>>)>>),
                         IngressNginx |-> IF k \in flagged
                                          THEN <<[IngressNginxHTTPRouteIR EXCEPT
                                                    !.SSLRedirect = TRUE]>>
                                          ELSE <<>>]],
                 Gateways |-> EmptyMap,
                 Services |-> EmptyMap,
                 BackendTLSPolicies |-> EmptyMap]
        /\ gatewayResources = CommonToGatewayResources(ir)
        /\ notifications = EmptyBag
        /\ errs = <<>>
        /\ pc = "transformed"

\* buildSSLRedirectRoutes called again on the resources it returned.
BuildSSLRedirectRoutesAgain ==
    /\ pc = "redirects"
    /\ \E routes \in buildSSLRedirectRoutes(ir.HTTPRoutes, gatewayResources.HTTPRoutes,
                                            gatewayConfig) :
          /\ gatewayResources' = [gatewayResources EXCEPT !.HTTPRoutes = routes]
          /\ notifications' = notifications (+)
                SetToBag({Notification(InfoNotification, "ssl-redirect-route", k) :
                             k \in (DOMAIN routes) \ DOMAIN gatewayResources.HTTPRoutes})
    /\ pc' = "reentered"
    /\ UNCHANGED <<pending, ingresses, gatewayConfig, ir, errs>>

NextReentry ==
    \/ BuildSSLRedirectRoutes
    \/ BuildSSLRedirectRoutesAgain

SpecReentry == InitReentry /\ [][NextReentry]_vars

\* C21: buildSSLRedirectRoutes never overwrites an HTTPRoute that is already
\* present (every route of the map before a run is in the map after it,
\* unchanged), and a second run on its own output leaves the HTTPRoutes map
\* as it is.
C21_Reentrant ==
    [][/\ (BuildSSLRedirectRoutes \/ BuildSSLRedirectRoutesAgain) =>
              \A k \in DOMAIN gatewayResources.HTTPRoutes :
                  /\ k \in DOMAIN gatewayResources'.HTTPRoutes
                  /\ gatewayResources'.HTTPRoutes[k] = gatewayResources.HTTPRoutes[k]
       /\ BuildSSLRedirectRoutesAgain =>
              gatewayResources'.HTTPRoutes = gatewayResources.HTTPRoutes]_vars

\* Both routes are flagged, the second run is over, the route that sat under
\* the redirect key of a/r1 is still the converter's, and the redirect route
\* of a/r1-redirect was generated.
C21_Witness ==
    /\ pc = "reentered"
    /\ \A k \in ReentryRouteKeys :
          NeedsRedirect(ir.HTTPRoutes[k]) /\ ir.HTTPRoutes[k].HTTPRoute.Hostnames = <<HostX, HostY>>
    /\ gatewayResources.HTTPRoutes[NamespacedName("a", "r1-redirect")].Source = ""
    /\ NamespacedName("a", "r1-redirect-redirect") \in DOMAIN gatewayResources.HTTPRoutes
    /\ gatewayResources.HTTPRoutes[NamespacedName("a", "r1-redirect-redirect")].Source
          = RedirectSource

----------------------------------------------------------------------------
(* Specification of GenerateEnvoyFilters on an IR whose route keys include  *)
(* namespaces and names with dashes: a/b-i-x-io and a-b/i-x-io are the      *)
(* routes of Ingress b-i in namespace a and of Ingress i in namespace a-b,  *)
(* both for host x.io.                                                      *)

FilterRouteKeys ==
    {NamespacedName("a", "b-i-x-io"), NamespacedName("a-b", "i-x-io"),
     NamespacedName("a", "i-x-io")}

\* The provider-specific records a route may carry into the materializer.
FilterProfiles ==
    {<<>>,
     <<[IngressNginxHTTPRouteIR EXCEPT !.RateLimitRPS = 5]>>,
     <<[IngressNginxHTTPRouteIR EXCEPT !.RateLimitRPS = 7, !.RateLimitBurst = 14]>>,
     <<[IngressNginxHTTPRouteIR EXCEPT !.ProxyBodySize = <<"8m">>]>>,
     <<[IngressNginxHTTPRouteIR EXCEPT !.ProxyBuffering = <<FALSE>>]>>,
     <<[IngressNginxHTTPRouteIR EXCEPT !.RateLimitRPS = 5, !.ProxyBodySize = <<"8m">>,
                                      !.ProxyBuffering = <<TRUE>>]>>}

InitFilterKeys ==
    \E profile \in [FilterRouteKeys -> FilterProfiles] : \E cfg \in GatewayConfigs :
        /\ ingresses = <<>>
        /\ pending = {}
        /\ gatewayConfig = cfg
        /\ ir = [HTTPRoutes |->
                    [k \in FilterRouteKeys |->
                        [HTTPRoute |-> HTTPRoute(k.Namespace, k.Name, "",
                                                 <<ParentReference(<<>>, IngressClass, <<>>)>>,
                                                 <<HostX>>, <<HTTPRouteRule(<<>>)>>),
                         IngressNginx |-> profile[k]]],
                 Gateways |-> EmptyMap,
                 Services |-> EmptyMap,
                 BackendTLSPolicies |-> EmptyMap]
        /\ gatewayResources = CommonToGatewayResources(ir)
        /\ notifications = EmptyBag
        /\ errs = <<>>
        /\ pc = "ir"

NextFilterKeys == BuildIstioEnvoyFilters

SpecFilterKeys == InitFilterKeys /\ [][NextFilterKeys]_vars

\* The (route key, concern) pairs the IR configures.
ConfiguredFilters ==
    {p \in (DOMAIN ir.HTTPRoutes) \X {"ratelimit", "bodysize", "nobuffer", "extauthz"} :
        LET nginxIR == NginxOf(ir.HTTPRoutes[p[1]])
        IN  /\ ir.HTTPRoutes[p[1]].IngressNginx # <<>>
            /\ CASE p[2] = "ratelimit" -> nginxIR.RateLimitRPS > 0
                  [] p[2] = "bodysize" -> nginxIR.ProxyBodySize # <<>>
                  [] p[2] = "nobuffer" -> nginxIR.ProxyBuffering = <<FALSE>>
                  [] p[2] = "extauthz" -> /\ nginxIR.ExternalAuth # <<>>
                                          /\ nginxIR.ExternalAuth[1].URL # ""}

\* C22: in both gateway modes GenerateEnvoyFilters returns as many filters as
\* the IR configures (route, concern) pairs: distinct pairs get distinct
\* output keys and no filter replaces another.
C22_FilterKeysUnique ==
    pc = "filters" =>
        Cardinality(gatewayResources.GatewayExtensions) = Cardinality(ConfiguredFilters)

----------------------------------------------------------------------------
(* Specification of the client-certificate pass alone, on Ingresses whose   *)
(* verify mode and verify depth are valid, invalid or absent.               *)

ClientCertAnnotations ==
    {EmptyMap,
     (authTLSSecretAnnotation :> "a/ca"),
     (authTLSSecretAnnotation :> "a/ca") @@ (authTLSVerifyClientAnnotation :> "optional")
        @@ (authTLSVerifyDepthAnnotation :> <<"3">>),
     (authTLSSecretAnnotation :> "a/ca") @@ (authTLSVerifyClientAnnotation :> "never"),
     (authTLSSecretAnnotation :> "a/ca") @@ (authTLSVerifyDepthAnnotation :> <<"-", "1">>),
     (authTLSSecretAnnotation :> "a/ca") @@ (authTLSVerifyDepthAnnotation :> <<"x">>),
     (authTLSSecretAnnotation :> "a/ca") @@ (authTLSVerifyClientAnnotation :> "off")
        @@ (authTLSVerifyDepthAnnotation :> <<"0">>)}

ClientCertIngressLists(n) ==
    {[i \in 1..n |-> Ingress(f[i][1], IngressNames[i], f[i][3],
                             <<IngressRule(f[i][2], "svc", 80)>>, <<>>)] :
        f \in [1..n -> Namespaces \X Hosts \X ClientCertAnnotations]}

InitClientCert ==
    \E n \in 1..MaxIngresses : \E ings \in ClientCertIngressLists(n) :
        Start(ings, DefaultGatewayConfig, {"client-cert-auth"})

NextClientCert == ClientCertAuthFeature

SpecClientCert == InitClientCert /\ [][NextClientCert]_vars

\* The Ingress has auth-tls-secret and a verify mode outside the enum.
OutOfEnumVerify(i) ==
    /\ AnnStr(ingresses[i].Annotations, authTLSSecretAnnotation) # ""
    /\ AnnStr(ingresses[i].Annotations, authTLSVerifyClientAnnotation)
          \notin {"", "on", "off", "optional", "optional_no_ca"}

\* C23: after the client-certificate pass, for every Ingress with
\* auth-tls-secret and an out-of-enum auth-tls-verify-client there is a
\* validation error about that annotation, and the route the Ingress
\* contributes to carries a ClientCertAuth record whose VerifyClient is "on".
C23_OutOfEnumVerifyKeepsRecord ==
    pc = "ir" =>
        \A i \in 1..Len(ingresses) :
            OutOfEnumVerify(i) =>
                /\ \E j \in 1..Len(errs) : errs[j].Field = authTLSVerifyClientAnnotation
                /\ LET nginxIR == NginxOf(ir.HTTPRoutes[RouteKeyOf(ingresses[i],
                                                                   ingresses[i].Rules[1])])
                   IN  /\ nginxIR.ClientCertAuth # <<>>
                       /\ nginxIR.ClientCertAuth[1].VerifyClient = "on"

\* C24: after the client-certificate pass every ClientCertAuth record in the
\* IR has VerifyDepth >= 0, and the depth is 1 when the only Ingress of the
\* run has auth-tls-secret and no auth-tls-verify-depth.
C24_VerifyDepthNonNegative ==
    pc = "ir" =>
        /\ \A k \in DOMAIN ir.HTTPRoutes :
              NginxOf(ir.HTTPRoutes[k]).ClientCertAuth # <<>> =>
                  NginxOf(ir.HTTPRoutes[k]).ClientCertAuth[1].VerifyDepth >= 0
        /\ (/\ Len(ingresses) = 1
            /\ DOMAIN ingresses[1].Annotations = {authTLSSecretAnnotation}) =>
              \A k \in DOMAIN ir.HTTPRoutes :
                  /\ NginxOf(ir.HTTPRoutes[k]).ClientCertAuth # <<>>
                  /\ NginxOf(ir.HTTPRoutes[k]).ClientCertAuth[1].VerifyDepth = 1

----------------------------------------------------------------------------
(* Claims about the resolution order of the rate (checked under SpecRate)   *)

\* The annotation of the one Ingress is present and holds a positive integer.
PositiveInt(key) ==
    /\ AnnChars(RateAnn, key) # <<>>
    /\ ~Atoi(AnnChars(RateAnn, key)).err
    /\ Atoi(AnnChars(RateAnn, key)).val > 0

Present(key) == AnnChars(RateAnn, key) # <<>>

\* The rate of the first rate=<int>r/s or rate=<int>r/m occurrence in the
\* zone, per second (0 if there is none).
FirstZoneRate(zone) ==
    LET is == {i \in 1..Len(zone) : RateMatchAt(zone, i, "s") \/ RateMatchAt(zone, i, "m")}
        i0 == Min(is)
        val == Atoi(SubSeq(zone, i0 + 5, DigitRunEnd(zone, i0 + 5))).val
    IN  IF is = {} THEN 0
        ELSE IF RateMatchAt(zone, i0, "s") THEN val ELSE RPMToRPS(val)

\* C25: when the Ingress parses without error and limit-rps and limit-rpm,
\* where present, are positive, the resolved RPS is the limit-rps value if
\* present, otherwise the converted limit-rpm value if present, otherwise the
\* rate of the first rate= occurrence of limit-req-zone.
C25_RateResolutionOrder ==
    (/\ pc = "ir"
     /\ errs = <<>>
     /\ Present(limitRPSAnnotation) => PositiveInt(limitRPSAnnotation)
     /\ Present(limitRPMAnnotation) => PositiveInt(limitRPMAnnotation)) =>
        LET expected ==
                IF Present(limitRPSAnnotation)
                THEN Atoi(AnnChars(RateAnn, limitRPSAnnotation)).val
                ELSE IF Present(limitRPMAnnotation)
                THEN RPMToRPS(Atoi(AnnChars(RateAnn, limitRPMAnnotation)).val)
                ELSE FirstZoneRate(AnnChars(RateAnn, limitReqZoneAnnotation))
        IN  /\ parseRateLimitConfig(RateAnn).config.RPS = expected
            /\ StoredRPS = expected

\* C26: when the Ingress parses without error and limit-burst-multiplier = k
\* is present, the stored burst is k times the stored (final) RPS.
C26_BurstIsMultipleOfRPS ==
    (/\ pc = "ir"
     /\ errs = <<>>
     /\ Present(limitBurstAnnotation)) =>
        StoredBurst = Atoi(AnnChars(RateAnn, limitBurstAnnotation)).val * StoredRPS

----------------------------------------------------------------------------
(* Conflict resolution between Ingresses (checked under SpecTimeout)        *)

\* The Ingresses of the list that carry timeouts and have a rule for the host
\* in the namespace.
TimeoutWriters(ns, host) ==
    {i \in 1..Len(ingresses) :
        /\ ingresses[i].Namespace = ns
        /\ CarriesTimeouts(i)
        /\ \E r \in Range(ingresses[i].Rules) : r.Host = host}

\* C27: once the timeout pass has run on Ingresses of one namespace, a route
\* to which several Ingresses with timeouts contribute carries, on every
\* rule, the timeouts of the one that comes last in the input order.
C27_LastWriterWins ==
    (/\ pc = "ir"
     /\ \A i \in 1..Len(ingresses) : ingresses[i].Namespace = ingresses[1].Namespace) =>
        \A k \in DOMAIN ir.HTTPRoutes :
            LET host == ir.HTTPRoutes[k].HTTPRoute.Hostnames[1]
                writers == TimeoutWriters(k.Namespace, host)
            IN  Cardinality(writers) > 1 =>
                    \A rule \in Range(ir.HTTPRoutes[k].HTTPRoute.Rules) :
                        RuleHasTimeouts(rule, TimeoutsOf(Max(writers)))

----------------------------------------------------------------------------
(* Specification of the six route-level feature passes in any order, on     *)
(* Ingresses that trigger several of them at once: one kind of Ingress      *)
(* carries the proxy, rate-limit and redirect settings, the other the       *)
(* authentication and timeout settings.                                     *)

PassNames ==
    {"proxy-settings", "rate-limit", "ssl-redirect", "client-cert-auth", "external-auth",
     "timeout"}

PassAnnotations ==
    {(limitRPSAnnotation :> <<"5">>) @@ (limitBurstAnnotation :> <<"3">>)
        @@ (proxyBodySizeAnnotation :> <<"8", "m">>)
        @@ (proxyBufferingAnnotation :> <<"o", "f", "f">>)
        @@ (sslRedirectAnnotation :> "true") @@ (loadBalanceAnnotation :> "ewma"),
     (authURLAnnotation :> "https://auth.example") @@ (authTLSSecretAnnotation :> "a/ca")
        @@ (authTLSVerifyClientAnnotation :> "optional")
        @@ (proxyReadTimeoutAnnotation :> Chars30)
        @@ (proxyConnectTimeoutAnnotation :> Chars5)}

\* Where the Ingresses of this specification live: two hosts of one
\* namespace, so that an Ingress's settings can land on either route.
PassPlaces == {<<"a", HostX>>, <<"a", HostY>>}

PassIngressLists(n) ==
    {[i \in 1..n |-> Ingress(f[i][1][1], IngressNames[i], f[i][2],
                             <<IngressRule(f[i][1][2], "svc", 80)>>, <<>>)] :
        f \in [1..n -> PassPlaces \X PassAnnotations]}

InitPasses ==
    \E n \in 1..MaxIngresses : \E ings \in PassIngressLists(n) :
        Start(ings, DefaultGatewayConfig, PassNames)

NextPasses ==
    \/ ProxySettingsFeature
    \/ RateLimitFeature
    \/ SSLRedirectFeature
    \/ ClientCertAuthFeature
    \/ ExternalAuthFeature
    \/ TimeoutFeature

SpecPasses == InitPasses /\ [][NextPasses]_vars

\* The fields of the route's provider-specific sub-record a pass writes.
OwnFields(pass) ==
    CASE pass = "proxy-settings" -> {"ProxyBodySize", "ProxyBuffering", "ProxyRequestBuffering"}
      [] pass = "rate-limit" -> {"RateLimitRPS", "RateLimitBurst"}
      [] pass = "ssl-redirect" -> {"SSLRedirect"}
      [] pass = "client-cert-auth" -> {"ClientCertAuth"}
      [] pass = "external-auth" -> {"ExternalAuth"}
      [] pass = "timeout" -> {}

\* The route with the timeouts of its rules cleared.
WithoutTimeouts(route) ==
    [route EXCEPT !.Rules = [j \in 1..Len(route.Rules) |->
                                [route.Rules[j] EXCEPT !.Request = <<>>,
                                                       !.BackendRequest = <<>>]]]

\* C28: every step of a feature pass keeps the route keys and service keys of
\* the IR, keeps an allocated IngressNginx sub-record allocated, changes in
\* it only the fields of the pass's own concern, changes the HTTPRoute only
\* in the timeout pass and there only the timeouts of its rules, and changes
\* the services only in the proxy-settings pass.
C28_PassesMerge ==
    [][pending' # pending =>
          LET pass == CHOOSE x \in pending \ pending' : TRUE
          IN  /\ DOMAIN ir'.HTTPRoutes = DOMAIN ir.HTTPRoutes
              /\ DOMAIN ir'.Services = DOMAIN ir.Services
              /\ ir'.Gateways = ir.Gateways
              /\ ir'.BackendTLSPolicies = ir.BackendTLSPolicies
              /\ pass # "proxy-settings" => ir'.Services = ir.Services
              /\ \A k \in DOMAIN ir.HTTPRoutes :
                    /\ ir.HTTPRoutes[k].IngressNginx # <<>> =>
                          ir'.HTTPRoutes[k].IngressNginx # <<>>
                    /\ \A f \in (DOMAIN IngressNginxHTTPRouteIR) \ OwnFields(pass) :
                          NginxOf(ir'.HTTPRoutes[k])[f] = NginxOf(ir.HTTPRoutes[k])[f]
                    /\ pass # "timeout" =>
                          ir'.HTTPRoutes[k].HTTPRoute = ir.HTTPRoutes[k].HTTPRoute
                    /\ WithoutTimeouts(ir'.HTTPRoutes[k].HTTPRoute)
                          = WithoutTimeouts(ir.HTTPRoutes[k].HTTPRoute)]_vars

\* All six passes have run and one route holds what each of them wrote.
C28_Witness ==
    /\ pc = "ir"
    /\ pending = {}
    /\ \E k \in DOMAIN ir.HTTPRoutes :
          LET nginxIR == NginxOf(ir.HTTPRoutes[k])
          IN  /\ nginxIR.SSLRedirect
              /\ nginxIR.RateLimitRPS = 5
              /\ nginxIR.ProxyBodySize # <<>>
              /\ nginxIR.ClientCertAuth # <<>>
              /\ nginxIR.ExternalAuth # <<>>
              /\ ir.HTTPRoutes[k].HTTPRoute.Rules[1].Request = <<"30s">>

----------------------------------------------------------------------------
(* Authorization of cross-namespace references (checked under Spec)         *)

\* A ReferenceGrant of namespace G lets HTTPRoutes of namespace S reference
\* the Gateway of the given name.
Authorized(S, G, gatewayName) ==
    \E g \in DOMAIN gatewayResources.ReferenceGrants :
        LET grant == gatewayResources.ReferenceGrants[g]
        IN  /\ grant.Namespace = G
            /\ [Kind |-> "HTTPRoute", Namespace |-> S] \in grant.From
            /\ [Kind |-> "Gateway", Name |-> gatewayName] \in grant.To

\* C29: in the resources Provider.ToGatewayResources returns, in either
\* gateway mode, every parentRef of every HTTPRoute (redirect routes
\* included) that resolves into a namespace other than the route's own is
\* covered by a ReferenceGrant of that namespace for the route's namespace
\* and the referenced Gateway.
C29_CrossNamespaceAuthorized ==
    pc = "done" =>
        \A k \in DOMAIN gatewayResources.HTTPRoutes :
            LET route == gatewayResources.HTTPRoutes[k]
            IN  \A i \in 1..Len(route.ParentRefs) :
                    ParentOf(route, i).Namespace # k.Namespace =>
                        Authorized(k.Namespace, ParentOf(route, i).Namespace,
                                   ParentOf(route, i).Name)

----------------------------------------------------------------------------
(* Namespace isolation of the feature passes (checked under Spec)           *)

\* The Ingress list with the annotations of the Ingresses of namespace ns
\* replaced by ann.
WithAnnotations(ings, ns, ann) ==
    [i \in 1..Len(ings) |->
        IF ings[i].Namespace = ns THEN [ings[i] EXCEPT !.Annotations = ann] ELSE ings[i]]

\* The routes of the IR after the SSL-redirect and timeout passes of a run
\* on the Ingress list.
RoutesAfterPasses(ings) ==
    timeoutFeature(ings,
        sslRedirectFeature(ings, [routes |-> CommonToIR(ings).HTTPRoutes,
                                  errs |-> <<>>, notes |-> EmptyBag])).routes

\* The annotation sets namespace a is given in the second run.
IsolationAnnotations ==
    SSLAnnotations \cup {(proxyReadTimeoutAnnotation :> Chars7200)}

\* C30: once the passes of a run are over, a second run that differs from it
\* only in the annotations of the Ingresses of namespace a leaves every route
\* keyed in namespace b with the same route context (SSL-redirect flag and
\* timeouts included) as the first.
C30_NamespaceIsolation ==
    pc = "ir" =>
        \A ann \in IsolationAnnotations :
            \A k \in DOMAIN ir.HTTPRoutes :
                k.Namespace = "b" =>
                    RoutesAfterPasses(WithAnnotations(ingresses, "a", ann))[k]
                        = ir.HTTPRoutes[k]

====
